---- MODULE Spec2Model ----
(***************************************************************************)
(* Subscription lifecycle of src/bot.py: the calendar clock, the payment   *)
(* option resolver (get_payment_options), the activation engine            *)
(* (activate_subscription) and the expiration sweeper                      *)
(* (check_expirations_loop), over the subscriptions table.                 *)
(*                                                                         *)
(* Time.  time.time() and now_local() read the same wall clock.  The model *)
(* clock `now` counts ticks; a day has SlotsPerDay ticks: slot 0 is 00:00, *)
(* slot 1 is 01:00, the last slot is 23:59:59 and any slot between them is *)
(* daytime.  Tick 0 is 00:00 of day 1 of the Epoch month.  A timestamp is  *)
(* the tick of its local date and time (Europe/Minsk is a fixed offset, so *)
(* localize()/timestamp() keep the order of local times).                  *)
(***************************************************************************)
EXTENDS Integers, Sequences, FiniteSets, TLC

VARIABLES now, plan, subs, invites, last, calls, promo_codes, promo_usage,
          record_start, invoices, manual_payments, promo_offers, sweep_pending,
          user_states, menus

vars == <<now, plan, subs, invites, last, calls, promo_codes, promo_usage,
          record_start, invoices, manual_payments, promo_offers, sweep_pending,
          user_states, menus>>

----------------------------------------------------------------------------
(* Bounds *)

HorizonDays == 52
MaxInvites == 2
MaxThreads == 2
ConcTicks == 5
FrameTicks == 7
PromoTicks == 4
PromoAge == 18
MaxRequests == 2
PayTicks == 1
MenuTicks == 1

Users == {1}
Plans == {1}
Groups == {7}
Prices == {999, 1000}
Slots == <<"00:00", "01:00", "23:59:59">>
Epoch == [year |-> 2025, month |-> 12]

SlotsPerDay == Len(Slots)
LastSlot == SlotsPerDay - 1
MaxNow == HorizonDays * SlotsPerDay - 1

----------------------------------------------------------------------------
(* Calendar: datetime / calendar arithmetic behind now_local() *)

IsLeap(y) == (y % 4 = 0 /\ y % 100 # 0) \/ y % 400 = 0

DaysInMonth(m, y) ==
    IF m = 2 THEN (IF IsLeap(y) THEN 29 ELSE 28)
    ELSE IF m \in {4, 6, 9, 11} THEN 30 ELSE 31

RECURSIVE DateFrom(_, _, _)
DateFrom(y, m, d0) ==
    IF d0 < DaysInMonth(m, y)
    THEN [year |-> y, month |-> m, day |-> d0 + 1]
    ELSE IF m = 12 THEN DateFrom(y + 1, 1, d0 - DaysInMonth(m, y))
         ELSE DateFrom(y, m + 1, d0 - DaysInMonth(m, y))

\* now_local(): the local date and slot of tick t
now_local(t) ==
    LET d == DateFrom(Epoch.year, Epoch.month, t \div SlotsPerDay)
    IN  [year |-> d.year, month |-> d.month, day |-> d.day, slot |-> t % SlotsPerDay]

RECURSIVE DaysBefore(_, _, _, _)
DaysBefore(y0, m0, y, m) ==
    IF y0 = y /\ m0 = m THEN 0
    ELSE IF m0 = 12 THEN DaysInMonth(m0, y0) + DaysBefore(y0 + 1, 1, y, m)
         ELSE DaysInMonth(m0, y0) + DaysBefore(y0, m0 + 1, y, m)

\* int(LOCAL_TZ.localize(datetime(y, m, d, 23, 59, 59)).timestamp())
EndOfDayTs(y, m, d) ==
    (DaysBefore(Epoch.year, Epoch.month, y, m) + d - 1) * SlotsPerDay + LastSlot

\* get_current_period()
get_current_period(t) == <<now_local(t).month, now_local(t).year>>

\* get_active_payment_type()
get_active_payment_type(t) ==
    LET day == now_local(t).day
    IN  IF 1 <= day /\ day <= 5 THEN "first"
        ELSE IF 15 <= day /\ day <= 20 THEN "second"
        ELSE IF day >= 21 THEN "half_month"
        ELSE "full_anytime"

----------------------------------------------------------------------------
(* Tables *)

PaymentTypes ==
    {"full", "full_anytime", "partial", "second_part", "second_part_late",
     "half_month", "renewal"}

FullCoverTypes ==
    {"full", "full_anytime", "half_month", "second_part", "second_part_late"}

Ids(T) == 1 .. Len(T)

\* SELECT ... FROM subscriptions WHERE user_id=? AND plan_id=? AND active=1
ActiveIds(T, u, p) ==
    {i \in Ids(T) : T[i].user_id = u /\ T[i].plan_id = p /\ T[i].active}

\* ... ORDER BY end_ts DESC LIMIT 1: the ids fetchone() may return, 0 for None
\* (rows with equal end_ts are returned in an order SQLite does not fix)
LatestActive(T, u, p) ==
    LET A == ActiveIds(T, u, p)
    IN  IF A = {} THEN {0}
        ELSE {i \in A : \A j \in A : T[j].end_ts <= T[i].end_ts}

----------------------------------------------------------------------------
(* check_existing_active_subscription and get_payment_options *)

\* (has_active_sub, sub_info) for the fetched row e (0 when there is none)
check_existing_active_subscription(T, t, e) ==
    LET period == get_current_period(t)
    IN  IF e = 0 THEN [has |-> FALSE, info |-> 0]
        ELSE IF T[e].end_ts > t
        THEN IF T[e].month = period[1] /\ T[e].year = period[2]
             THEN IF T[e].part_paid \in {"full", "first"}
                  THEN [has |-> TRUE, info |-> e]
                  ELSE [has |-> FALSE, info |-> e]
             ELSE [has |-> TRUE, info |-> e]
        ELSE [has |-> FALSE, info |-> e]

Option(type, price) == [type |-> type, price |-> price]

\* FullyPaid with the early return of line 723 lost
FullyPaid_Never(T, chk) == FALSE

\* line 723: a fully paid subscription hides every option
FullyPaid(T, chk) == chk.has /\ chk.info # 0 /\ T[chk.info].part_paid = "full"

\* lines 738-741
HasPaidFirstPart(T, chk) == chk.has /\ chk.info # 0 /\ T[chk.info].part_paid = "first"

\* LateOptions charging the whole price for the rest of the month
LateOptions_FullPrice(has_paid_first_part, price_cents) ==
    IF has_paid_first_part
    THEN <<Option("second_part_late", price_cents \div 2)>>
    ELSE <<Option("half_month", price_cents)>>

\* lines 747-762: day >= 21
LateOptions(has_paid_first_part, price_cents) ==
    IF has_paid_first_part
    THEN <<Option("second_part_late", price_cents \div 2)>>
    ELSE <<Option("half_month", price_cents \div 2)>>

\* FirstWindowOptions with the two appends in the other order
FirstWindowOptions_PartialFirst(has_paid_first_part, price_cents) ==
    IF has_paid_first_part
    THEN <<Option("second_part", price_cents \div 2)>>
    ELSE <<Option("partial", price_cents \div 2), Option("full", price_cents)>>

\* lines 764-790: days 1..5
FirstWindowOptions(has_paid_first_part, price_cents) ==
    IF has_paid_first_part
    THEN <<Option("second_part", price_cents \div 2)>>
    ELSE <<Option("full", price_cents), Option("partial", price_cents \div 2)>>

\* lines 792-810: days 15..20
SecondWindowOptions(has_paid_first_part, price_cents) ==
    IF has_paid_first_part
    THEN <<Option("second_part", price_cents \div 2)>>
    ELSE <<Option("full", price_cents)>>

\* GapOptions that also offers the first half, as in the first window
GapOptions_OffersPartial(has_paid_first_part, price_cents) ==
    IF has_paid_first_part
    THEN <<Option("second_part_late", price_cents \div 2)>>
    ELSE <<Option("full", price_cents), Option("partial", price_cents \div 2)>>

\* lines 812-830: days 6..14
GapOptions(has_paid_first_part, price_cents) ==
    IF has_paid_first_part
    THEN <<Option("second_part_late", price_cents \div 2)>>
    ELSE <<Option("full", price_cents)>>

get_payment_options(T, p, t, e) ==
    LET chk          == check_existing_active_subscription(T, t, e)
        active_type  == get_active_payment_type(t)
        price_cents  == plan[p].price
        has_paid_first_part == HasPaidFirstPart(T, chk)
        day          == now_local(t).day
    IN  IF FullyPaid(T, chk) THEN <<>>
        ELSE IF day >= 21 THEN LateOptions(has_paid_first_part, price_cents)
        ELSE IF active_type = "first"
        THEN FirstWindowOptions(has_paid_first_part, price_cents)
        ELSE IF active_type = "second"
        THEN SecondWindowOptions(has_paid_first_part, price_cents)
        ELSE GapOptions(has_paid_first_part, price_cents)

----------------------------------------------------------------------------
(* activate_subscription *)

\* NextMonthDay5 that forgets to move to the next month
NextMonthDay5_ThisMonth(t) ==
    LET n == now_local(t)
    IN  EndOfDayTs(n.year, n.month, 5)

\* day 5, 23:59:59 of the month after the month of tick t
NextMonthDay5(t) ==
    LET n == now_local(t)
    IN  IF n.month = 12 THEN EndOfDayTs(n.year + 1, 1, 5)
        ELSE EndOfDayTs(n.year, n.month + 1, 5)

\* CurrentMonthDay15 that ends the first half on day 20
CurrentMonthDay15_Day20(t) ==
    LET n == now_local(t)
    IN  EndOfDayTs(n.year, n.month, 20)

\* lines 542-543: day 15, 23:59:59 of the month of tick t
CurrentMonthDay15(t) ==
    LET n == now_local(t)
    IN  EndOfDayTs(n.year, n.month, 15)

\* ComputeEnd whose partial branch leaves part_paid at the column default
ComputeEnd_PartialUnmarked(payment_type, t) ==
    IF payment_type = "partial"
    THEN [bound |-> TRUE, end_ts |-> CurrentMonthDay15(t), part_paid |-> "none"]
    ELSE IF payment_type \in FullCoverTypes
    THEN [bound |-> TRUE, end_ts |-> NextMonthDay5(t), part_paid |-> "full"]
    ELSE [bound |-> FALSE, end_ts |-> 0, part_paid |-> "none"]

\* lines 503-556: end_ts and part_paid by payment type; a type with no branch
\* leaves both names unbound
ComputeEnd(payment_type, t) ==
    IF payment_type = "half_month"
    THEN [bound |-> TRUE, end_ts |-> NextMonthDay5(t), part_paid |-> "full"]
    ELSE IF payment_type \in {"full", "full_anytime"}
    THEN [bound |-> TRUE, end_ts |-> NextMonthDay5(t), part_paid |-> "full"]
    ELSE IF payment_type = "partial"
    THEN [bound |-> TRUE, end_ts |-> CurrentMonthDay15(t), part_paid |-> "first"]
    ELSE IF payment_type \in {"second_part", "second_part_late"}
    THEN [bound |-> TRUE, end_ts |-> NextMonthDay5(t), part_paid |-> "full"]
    ELSE [bound |-> FALSE, end_ts |-> 0, part_paid |-> "none"]

\* TargetGroup that falls back to some group of the bot when none is given
TargetGroup_Default(plan_group_id, group_id) ==
    IF plan_group_id # 0 THEN plan_group_id
    ELSE IF group_id # 0 THEN group_id
    ELSE CHOOSE g \in Groups : TRUE

\* line 444: target_group_id = plan_group_id if plan_group_id else group_id
\* (0 stands for None)
TargetGroup(plan_group_id, group_id) ==
    IF plan_group_id # 0 THEN plan_group_id ELSE group_id

\* line 457: start_ts = int(time.time()).  The column is written by the
\* INSERT and read by no statement of the model, so rows hold the stamp only
\* in behaviours that record it (record_start) and 0 in the others.
StartStamp(t) == IF record_start THEN t ELSE 0

\* lines 436-556: everything before the credential request.  e is the id
\* fetched by the SELECT of line 461 (0 when it returns no row).  The lookup
\* of an inactive row (lines 482-496) binds sub_id and existing_end_ts only;
\* sub_id is bound again before each UPDATE and existing_end_ts is never read.
ActRead(T, u, p, payment_type, group_id, t, e) ==
    LET pl     == plan[p]
        period == get_current_period(t)
        target == TargetGroup(pl.group_id, group_id)
        c      == ComputeEnd(payment_type, t)
    IN  [ret          |-> IF target = 0 THEN "no_group" ELSE "run",
         user_id      |-> u,
         plan_id      |-> p,
         payment_type |-> payment_type,
         target_group |-> target,
         start_ts     |-> StartStamp(t),
         cur_month    |-> period[1],
         cur_year     |-> period[2],
         ex_id        |-> e,
         ex_part_paid |-> IF e = 0 THEN "none" ELSE T[e].part_paid,
         ex_month     |-> IF e = 0 THEN period[1] ELSE T[e].month,
         ex_year      |-> IF e = 0 THEN period[2] ELSE T[e].year,
         bound        |-> c.bound,
         end_ts       |-> c.end_ts,
         part_paid    |-> c.part_paid,
         payload      |-> <<>>,
         request      |-> 0]

\* ActWrite without the lookup of the existing row: every call inserts
ActWrite_AlwaysInsert(T, loc, invite_link) ==
    Append(T, [id           |-> Len(T) + 1,
               user_id      |-> loc.user_id,
               plan_id      |-> loc.plan_id,
               start_ts     |-> loc.start_ts,
               end_ts       |-> loc.end_ts,
               invite_link  |-> invite_link,
               active       |-> TRUE,
               removed      |-> FALSE,
               group_id     |-> loc.target_group,
               payment_type |-> loc.payment_type,
               month        |-> loc.cur_month,
               year         |-> loc.cur_year,
               part_paid    |-> loc.part_paid])

\* UpdateCurrentPeriod as a replacement of the row: the id is kept, every
\* other column is written afresh
UpdateCurrentPeriod_Replace(r, loc, invite_link) ==
    [id           |-> r.id,
     user_id      |-> loc.user_id,
     plan_id      |-> loc.plan_id,
     start_ts     |-> loc.start_ts,
     end_ts       |-> loc.end_ts,
     invite_link  |-> invite_link,
     active       |-> TRUE,
     removed      |-> FALSE,
     group_id     |-> loc.target_group,
     payment_type |-> loc.payment_type,
     month        |-> loc.cur_month,
     year         |-> loc.cur_year,
     part_paid    |-> loc.part_paid]

\* lines 569-582: UPDATE subscriptions SET payment_type, part_paid, end_ts,
\* invite_link, active=1, removed=0 WHERE id=? (both branches run the same
\* statement)
UpdateCurrentPeriod(r, loc, invite_link) ==
    [r EXCEPT !.payment_type = loc.payment_type,
              !.part_paid = loc.part_paid,
              !.end_ts = loc.end_ts,
              !.invite_link = invite_link,
              !.active = TRUE,
              !.removed = FALSE]

\* lines 565-601: the UPDATE or INSERT, from the locals of ActRead.
\* next_payment_date and last_notification_ts are set at INSERT (or by the
\* notifier) and read only to be displayed; rows do not carry them.
ActWrite(T, loc, invite_link) ==
    IF loc.ex_id # 0 /\ loc.ex_month = loc.cur_month /\ loc.ex_year = loc.cur_year
    THEN [T EXCEPT ![loc.ex_id] = UpdateCurrentPeriod(@, loc, invite_link)]
    ELSE IF loc.ex_id # 0
    THEN [T EXCEPT ![loc.ex_id] =
            [@ EXCEPT !.payment_type = loc.payment_type,
                      !.part_paid = loc.part_paid,
                      !.month = loc.cur_month,
                      !.year = loc.cur_year,
                      !.end_ts = loc.end_ts,
                      !.invite_link = invite_link,
                      !.active = TRUE,
                      !.removed = FALSE]]
    ELSE Append(T, [id           |-> Len(T) + 1,
                    user_id      |-> loc.user_id,
                    plan_id      |-> loc.plan_id,
                    start_ts     |-> loc.start_ts,
                    end_ts       |-> loc.end_ts,
                    invite_link  |-> invite_link,
                    active       |-> TRUE,
                    removed      |-> FALSE,
                    group_id     |-> loc.target_group,
                    payment_type |-> loc.payment_type,
                    month        |-> loc.cur_month,
                    year         |-> loc.cur_year,
                    part_paid    |-> loc.part_paid])

\* the id of the row ActWrite writes
WrittenId(T, loc) == IF loc.ex_id # 0 THEN loc.ex_id ELSE Len(T) + 1

\* record of the operation that ran last: its arguments, its result, the row
\* or the options it returned, the requests it sent to Telegram (unban,
\* link_req), for the promo functions the code and the prices, and for a
\* sweep the ban requests it sent per row and the rows whose request raised;
\* payload is the invoice payload of a completed card payment, request the id
\* of a manual payment being approved
Op(op, u, p, payment_type, res, sub_id, opts) ==
    [op |-> op, user_id |-> u, plan_id |-> p, payment_type |-> payment_type,
     result |-> res, sub_id |-> sub_id, options |-> opts,
     unban |-> FALSE, link_req |-> FALSE,
     promo_id |-> 0, price |-> 0, new_price |-> 0,
     ban_calls |-> <<>>, ban_failed |-> {}, payload |-> <<>>, request |-> 0]

NoOp == Op("none", 0, 0, "none", "none", 0, <<>>)

NoCall == [ret |-> "idle"]

\* user_states holds no entry for the user
NoState == [mode |-> "none"]

\* the record of an activate_subscription call that returned res; unban and
\* link_req tell whether lines 450 and 559 were reached
ActDone(loc, res, sub_id, unban, link_req) ==
    [Op("activate", loc.user_id, loc.plan_id, loc.payment_type, res, sub_id, <<>>)
        EXCEPT !.unban = unban, !.link_req = link_req, !.payload = loc.payload,
               !.request = loc.request]

\* ActOk that takes every return of the call for a success
ActOk_Always(loc, link_ok) == TRUE

\* the call returns (True, invite_link)
ActOk(loc, link_ok) == loc.ret = "run" /\ link_ok /\ loc.bound

\* ActFinish that writes the row before it asks for the credential
ActFinish_WriteBeforeLink(loc, link_ok) ==
    IF loc.ret = "no_group"
    THEN /\ last' = ActDone(loc, "no_group", 0, FALSE, FALSE)
         /\ UNCHANGED <<subs, invites>>
    ELSE IF ~loc.bound
    THEN /\ invites' = invites + 1
         /\ last' = ActDone(loc, "raised", 0, TRUE, TRUE)
         /\ UNCHANGED subs
    ELSE IF ~link_ok
    THEN /\ subs' = ActWrite(subs, loc, 0)
         /\ last' = ActDone(loc, "no_link", 0, TRUE, TRUE)
         /\ UNCHANGED invites
    ELSE /\ invites' = invites + 1
         /\ subs' = ActWrite(subs, loc, invites + 1)
         /\ last' = ActDone(loc, "ok", WrittenId(subs, loc), TRUE, TRUE)

\* lines 445-603 after ActRead: the group check, the unban and credential
\* requests, the write and the commit.  link_ok is the outcome of
\* create_chat_invite_link_one_time.
ActFinish(loc, link_ok) ==
    IF loc.ret = "no_group"
    THEN \* line 446: return before the unban request
         /\ last' = ActDone(loc, "no_group", 0, FALSE, FALSE)
         /\ UNCHANGED <<subs, invites>>
    ELSE IF ~link_ok
    THEN \* line 563: return before any write
         /\ last' = ActDone(loc, "no_link", 0, TRUE, TRUE)
         /\ UNCHANGED <<subs, invites>>
    ELSE IF ~loc.bound
    THEN \* UnboundLocalError on part_paid / end_ts: the handler dies, no write
         /\ invites' = invites + 1
         /\ last' = ActDone(loc, "raised", 0, TRUE, TRUE)
         /\ UNCHANGED subs
    ELSE /\ invites' = invites + 1
         /\ subs' = ActWrite(subs, loc, invites + 1)
         /\ last' = ActDone(loc, "ok", WrittenId(subs, loc), TRUE, TRUE)

\* activate_subscription run to completion without interleaving
Activate(u, p, payment_type) ==
    /\ invites < MaxInvites
    /\ \E e \in LatestActive(subs, u, p), link_ok \in BOOLEAN :
          ActFinish(ActRead(subs, u, p, payment_type, 0, now, e), link_ok)
    /\ UNCHANGED <<now, plan, promo_codes, promo_usage, record_start, invoices, manual_payments, promo_offers, sweep_pending, user_states, menus, calls>>

\* a user opens the payment menu of a plan (show_plan_full_info and the
\* other callers of get_payment_options); nothing is written
GetPaymentOptions(u, p) ==
    /\ \E e \in LatestActive(subs, u, p) :
          last' = Op("options", u, p, "none", "ok", e,
                     get_payment_options(subs, p, now, e))
    /\ UNCHANGED <<now, plan, promo_codes, promo_usage, record_start, invoices, manual_payments, promo_offers, sweep_pending, user_states, menus, subs, invites, calls>>

----------------------------------------------------------------------------
(* check_expirations_loop *)

\* DailyExpired that looks only at rows credited to the period in force
DailyExpired_CurrentPeriod(T, t) ==
    {i \in Ids(T) : /\ T[i].active /\ T[i].end_ts < t
                    /\ <<T[i].month, T[i].year>> = get_current_period(t)}

\* lines 4303-4309: SELECT ... WHERE s.active = 1 AND s.end_ts < now
\* (every user of the model is registered in users and every plan exists,
\* so the JOINs keep all rows)
DailyExpired(T, t) == {i \in Ids(T) : T[i].active /\ T[i].end_ts < t}

\* lines 4316-4329: UPDATE subscriptions SET active = 0, removed = 1 per row
Revoke(T, S) ==
    [i \in Ids(T) |-> IF i \in S THEN [T[i] EXCEPT !.active = FALSE, !.removed = TRUE]
                      ELSE T[i]]

\* lines 4319-4324: ban_chat_member is called once for every selected row
\* that names a group; the number of calls per row
BanCalls(T, S) == [i \in {j \in S : T[j].group_id # 0} |-> 1]

\* Revoked that skips the UPDATE of a row whose ban request raised
Revoked_OnlyBanned(S, F) == S \ F

\* lines 4317-4329: the rows of the selection S whose UPDATE is executed when
\* the ban requests of the rows F raise; the inner try/except of lines
\* 4320-4325 swallows the exception and the loop goes on to line 4328
Revoked(S, F) == S

\* the 01:00 branch of the loop, run to completion; F are the selected rows
\* whose ban_chat_member call raises
SweepDaily ==
    /\ now_local(now).slot = 1
    /\ \E F \in SUBSET DOMAIN BanCalls(subs, DailyExpired(subs, now)) :
          /\ subs' = Revoke(subs, Revoked(DailyExpired(subs, now), F))
          /\ last' = [Op("sweep_daily", 0, 0, "none", "ok", 0, <<>>)
                        EXCEPT !.ban_calls = BanCalls(subs, DailyExpired(subs, now)),
                               !.ban_failed = F]
    /\ UNCHANGED <<now, plan, promo_codes, promo_usage, record_start, invoices, manual_payments, promo_offers, sweep_pending, user_states, menus, invites, calls>>

\* the 01:00 branch on the sweeper thread while handlers run on theirs.
\* SweepRead is lines 4303-4311: the SELECT and fetchall(); sweep_pending holds
\* the fetched rows not yet handled by the loop of line 4316
SweepRead ==
    /\ now_local(now).slot = 1
    /\ sweep_pending = {}
    /\ DailyExpired(subs, now) # {}
    /\ sweep_pending' = DailyExpired(subs, now)
    /\ last' = Op("sweep_read", 0, 0, "none", "ok", 0, <<>>)
    /\ UNCHANGED <<now, plan, promo_codes, promo_usage, record_start, invoices,
                   manual_payments, promo_offers, user_states, menus, subs, invites, calls>>

\* lines 4316-4329 for one fetched row: the ban request and
\* UPDATE subscriptions SET active = 0, removed = 1 WHERE id = ?
SweepRow(i) ==
    /\ i \in sweep_pending
    /\ subs' = Revoke(subs, {i})
    /\ sweep_pending' = sweep_pending \ {i}
    /\ last' = Op("sweep_row", 0, 0, "none", "ok", i, <<>>)
    /\ UNCHANGED <<now, plan, promo_codes, promo_usage, record_start, invoices,
                   manual_payments, promo_offers, user_states, menus, invites, calls>>

\* lines 4212-4220 and 4257-4266: both SELECTs carry a '#' comment inside the
\* SQL text; SQLite rejects it (OperationalError: unrecognized token "#"), the
\* exception leaves the branch and is logged by the handler of line 4336, so
\* neither branch reaches its loop over rows.
SweepSelectRaises == TRUE

Day6Unpaid(T, t) ==
    LET period == get_current_period(t)
    IN  {i \in Ids(T) : /\ T[i].active
                        /\ (T[i].month # period[1] \/ T[i].year # period[2])
                        /\ T[i].part_paid = "none"}

Day21FirstOnly(T, t) ==
    LET period == get_current_period(t)
    IN  {i \in Ids(T) : /\ T[i].active
                        /\ T[i].payment_type = "partial"
                        /\ T[i].part_paid = "first"
                        /\ T[i].month = period[1] /\ T[i].year = period[2]}

\* Sweep6 whose SELECT is accepted and has lost its part_paid condition
Sweep6_RevokesStale ==
    /\ now_local(now).day = 6 /\ now_local(now).slot = 0
    /\ subs' = Revoke(subs, {i \in Ids(subs) :
                     /\ subs[i].active
                     /\ <<subs[i].month, subs[i].year>> # get_current_period(now)})
    /\ last' = Op("sweep6", 0, 0, "none", "ok", 0, <<>>)
    /\ UNCHANGED <<now, plan, promo_codes, promo_usage, record_start, invoices, manual_payments, promo_offers, sweep_pending, user_states, menus, invites, calls>>

\* the day 6, 00:00 branch
Sweep6 ==
    /\ now_local(now).day = 6 /\ now_local(now).slot = 0
    /\ subs' = IF SweepSelectRaises THEN subs ELSE Revoke(subs, Day6Unpaid(subs, now))
    /\ last' = Op("sweep6", 0, 0, "none",
                  IF SweepSelectRaises THEN "raised" ELSE "ok", 0, <<>>)
    /\ UNCHANGED <<now, plan, promo_codes, promo_usage, record_start, invoices, manual_payments, promo_offers, sweep_pending, user_states, menus, invites, calls>>

\* the day 21, 00:00 branch
Sweep21 ==
    /\ now_local(now).day = 21 /\ now_local(now).slot = 0
    /\ subs' = IF SweepSelectRaises THEN subs ELSE Revoke(subs, Day21FirstOnly(subs, now))
    /\ last' = Op("sweep21", 0, 0, "none",
                  IF SweepSelectRaises THEN "raised" ELSE "ok", 0, <<>>)
    /\ UNCHANGED <<now, plan, promo_codes, promo_usage, record_start, invoices, manual_payments, promo_offers, sweep_pending, user_states, menus, invites, calls>>

----------------------------------------------------------------------------
(* The clock *)

\* the wall clock moves on by one tick, up to the horizon
Advance(limit) ==
    /\ now < limit
    /\ now' = now + 1
    /\ last' = NoOp
    /\ UNCHANGED <<plan, promo_codes, promo_usage, record_start, invoices, manual_payments, promo_offers, sweep_pending, user_states, menus, subs, invites, calls>>

Tick == Advance(MaxNow)

----------------------------------------------------------------------------
(* Handlers on worker threads (TeleBot(threaded=True), one shared connection):
   activate_subscription is split at the credential request, the network call
   between its SELECT and its UPDATE/INSERT. *)

Threads == 1 .. MaxThreads

\* lines 436-556 on thread th: the reads and the computed locals
ActBegin(th, u, p, payment_type) ==
    /\ calls[th] = NoCall
    /\ \E e \in LatestActive(subs, u, p) :
          calls' = [calls EXCEPT ![th] = ActRead(subs, u, p, payment_type, 0, now, e)]
    /\ \/ /\ TargetGroup(plan[p].group_id, 0) = 0
          /\ last' = Op("act_begin", u, p, payment_type, "none", 0, <<>>)
       \/ /\ TargetGroup(plan[p].group_id, 0) # 0
          /\ last' = [Op("act_begin", u, p, payment_type, "none", 0, <<>>)
                        EXCEPT !.unban = TRUE]
    /\ UNCHANGED <<now, plan, promo_codes, promo_usage, record_start, invoices, manual_payments, promo_offers, sweep_pending, user_states, menus, subs, invites>>

\* lines 558-603 on thread th
ActEnd(th) ==
    /\ calls[th] # NoCall
    /\ calls[th].request = 0
    /\ invites < MaxInvites
    /\ \E link_ok \in BOOLEAN : ActFinish(calls[th], link_ok)
    /\ calls' = [calls EXCEPT ![th] = NoCall]
    /\ UNCHANGED <<now, plan, promo_codes, promo_usage, record_start, invoices, manual_payments, promo_offers, sweep_pending, user_states, menus>>

----------------------------------------------------------------------------
(* Promo codes: the creation dialogue, can_use_promo_code, apply_promo_code
   and the recording of a usage by got_payment *)

\* cents_from_str: a text <whole>[.<digits>] to cents; whole is int() of the
\* part before the point, frac the digits after it (<<>> when there is no
\* point or nothing follows it); only the first two digits count
cents_from_str(text) ==
    LET f == text.frac
    IN  text.whole * 100
          + (IF Len(f) = 0 THEN 0
             ELSE IF Len(f) = 1 THEN f[1] * 10
             ELSE f[1] * 10 + f[2])

\* texts an administrator sends as the value of a percent code
PercentTexts == {0 - 10, 0, 10, 100, 150}

\* texts an administrator sends as the value of a fixed code:
\* "1.5", "20", "0.009", "-1.5"
FixedTexts ==
    {[whole |-> 1, frac |-> <<5>>],
     [whole |-> 20, frac |-> <<>>],
     [whole |-> 0, frac |-> <<0, 0, 9>>],
     [whole |-> 0 - 1, frac |-> <<5>>]}

\* handle_promo_value that stores whatever number it is given
handle_promo_value_Unchecked(promo_type, value_text) ==
    IF promo_type = "percent"
    THEN [ok |-> TRUE, discount_percent |-> value_text, discount_fixed_cents |-> 0]
    ELSE [ok |-> TRUE, discount_percent |-> 0,
          discount_fixed_cents |-> cents_from_str(value_text)]

\* lines 3772-3790: the value step of the dialogue; ok is FALSE when the
\* handler raises ValueError and stores nothing
handle_promo_value(promo_type, value_text) ==
    IF promo_type = "percent"
    THEN IF value_text <= 0 \/ value_text > 100
         THEN [ok |-> FALSE, discount_percent |-> 0, discount_fixed_cents |-> 0]
         ELSE [ok |-> TRUE, discount_percent |-> value_text,
               discount_fixed_cents |-> 0]
    ELSE IF cents_from_str(value_text) <= 0
         THEN [ok |-> FALSE, discount_percent |-> 0, discount_fixed_cents |-> 0]
         ELSE [ok |-> TRUE, discount_percent |-> 0,
               discount_fixed_cents |-> cents_from_str(value_text)]

\* lines 3803-3807: the stored max_uses, 0 for None (no limit)
handle_promo_max_uses(n) ==
    IF n < 0 THEN [ok |-> FALSE, max_uses |-> 0] ELSE [ok |-> TRUE, max_uses |-> n]

\* the keyboard of line 3811: no term, 7, 30 or 90 days
PromoTerms == {0, 7, 30, 90}

\* lines 3826-3835: expires_ts of a code created at tick t, 0 for None
handle_promo_expires(days, t) ==
    IF days = 0 THEN 0 ELSE t + days * SlotsPerDay

\* lines 3844-3848: the row the dialogue inserts (is_active and used_count
\* take their column defaults)
NewPromo(v, m, expires_ts) ==
    [discount_percent     |-> v.discount_percent,
     discount_fixed_cents |-> v.discount_fixed_cents,
     is_active            |-> TRUE,
     used_count           |-> 0,
     max_uses             |-> m.max_uses,
     expires_ts           |-> expires_ts]

\* the dialogues tried: a kind with a value text, a max_uses answer, a term
PromoDialogues ==
    (({"percent"} \X PercentTexts) \cup ({"fixed"} \X FixedTexts))
        \X {0 - 1, 0, 1} \X {0, 7}

\* the rows the dialogues that ran to the INSERT wrote, PromoAge ticks before
\* tick 0
CreatedPromos ==
    {NewPromo(handle_promo_value(d[1][1], d[1][2]),
              handle_promo_max_uses(d[2]),
              handle_promo_expires(d[3], 0 - PromoAge)) :
        d \in {x \in PromoDialogues :
                  /\ handle_promo_value(x[1][1], x[1][2]).ok
                  /\ handle_promo_max_uses(x[2]).ok}}

PromoIds(P) == 1 .. Len(P)

\* lines 681-682: SELECT id FROM promo_usage WHERE promo_id=? AND user_id=?
HasUsed(U, promo_id, user_id) ==
    \E k \in 1 .. Len(U) : U[k].promo_id = promo_id /\ U[k].user_id = user_id

\* can_use_promo_code that looks at the flag of the code before the usage
can_use_promo_code_FlagFirst(P, U, promo_id, user_id, t) ==
    IF promo_id \notin PromoIds(P) THEN "not_found"
    ELSE IF ~P[promo_id].is_active THEN "inactive"
    ELSE IF HasUsed(U, promo_id, user_id) THEN "already_used"
    ELSE IF P[promo_id].max_uses # 0 /\ P[promo_id].used_count >= P[promo_id].max_uses
    THEN "exhausted"
    ELSE IF P[promo_id].expires_ts # 0 /\ P[promo_id].expires_ts < t
    THEN "expired"
    ELSE "ok"

\* can_use_promo_code: "ok" for (True, "OK"), else the reason returned
can_use_promo_code(P, U, promo_id, user_id, t) ==
    IF HasUsed(U, promo_id, user_id) THEN "already_used"
    ELSE IF promo_id \notin PromoIds(P) THEN "not_found"
    ELSE IF ~P[promo_id].is_active THEN "inactive"
    ELSE IF P[promo_id].max_uses # 0 /\ P[promo_id].used_count >= P[promo_id].max_uses
    THEN "exhausted"
    ELSE IF P[promo_id].expires_ts # 0 /\ P[promo_id].expires_ts < t
    THEN "expired"
    ELSE "ok"

\* int(a / b) for b > 0: the quotient truncated towards zero
IntDiv(a, b) == IF a >= 0 THEN a \div b ELSE 0 - ((0 - a) \div b)

Max0(x) == IF x > 0 THEN x ELSE 0

\* apply_promo_code that rounds the percent discount up
apply_promo_code_RoundsUp(price_cents, promo) ==
    IF promo.discount_percent # 0
    THEN Max0(price_cents - IntDiv(price_cents * promo.discount_percent + 99, 100))
    ELSE IF promo.discount_fixed_cents # 0
    THEN Max0(price_cents - promo.discount_fixed_cents)
    ELSE price_cents

\* apply_promo_code: the new price
apply_promo_code(price_cents, promo) ==
    IF promo.discount_percent # 0
    THEN Max0(price_cents - IntDiv(price_cents * promo.discount_percent, 100))
    ELSE IF promo.discount_fixed_cents # 0
    THEN Max0(price_cents - promo.discount_fixed_cents)
    ELSE price_cents

\* the record of a promo handler: the code, the price it was given and the
\* price it answered
PromoDone(op, u, p, payment_type, res, promo_id, price, new_price) ==
    [Op(op, u, p, payment_type, res, 0, <<>>)
        EXCEPT !.promo_id = promo_id, !.price = price, !.new_price = new_price]

\* lines 2441-2444: the amount a payment type is charged before the discount
OriginalAmount(p, payment_type) ==
    IF payment_type \in {"partial", "second_part", "half_month", "second_part_late"}
    THEN plan[p].price \div 2
    ELSE plan[p].price

\* handle_promo_code_input: a user in the checkout of plan p (payment type
\* chosen before) sends the text of a code; promo_id is the row get_promo_code
\* finds for it, an id outside the registry when it finds none.  An accepted
\* code is followed by the menus of lines 2283 and 2350-2374, whose buttons
\* carry the promo id and stay in the chat.
handle_promo_code_input(u, p, payment_type, promo_id) ==
    /\ LET price == OriginalAmount(p, payment_type)
           res   == IF promo_id \notin PromoIds(promo_codes) THEN "not_found"
                    ELSE can_use_promo_code(promo_codes, promo_usage, promo_id, u, now)
       IN  /\ last' = PromoDone("promo_input", u, p, payment_type, res, promo_id, price,
                                IF res = "ok"
                                THEN apply_promo_code(price, promo_codes[promo_id])
                                ELSE price)
           /\ promo_offers' = IF res = "ok" THEN promo_offers \cup {<<u, promo_id>>}
                              ELSE promo_offers
    /\ UNCHANGED <<now, plan, promo_codes, promo_usage, record_start, invoices,
                   manual_payments, sweep_pending, user_states, menus, subs, invites, calls>>

\* callback_buy_with_promo: the payment type button of a menu shown for an
\* accepted code; the code is looked up again and applied without a new
\* can_use_promo_code
callback_buy_with_promo(u, p, payment_type, promo_id) ==
    /\ <<u, promo_id>> \in promo_offers
    /\ LET price == OriginalAmount(p, payment_type)
       IN  last' = PromoDone("buy_with_promo", u, p, payment_type,
                             IF promo_id \in PromoIds(promo_codes) THEN "ok"
                             ELSE "not_found",
                             promo_id, price,
                             IF promo_id \in PromoIds(promo_codes)
                             THEN apply_promo_code(price, promo_codes[promo_id])
                             ELSE price)
    /\ UNCHANGED <<now, plan, promo_codes, promo_usage, record_start, invoices,
                   manual_payments, promo_offers, sweep_pending, user_states, menus, subs, invites, calls>>

----------------------------------------------------------------------------
(* Payment requests: invoices, manual payments and their completion *)

\* the numbers a payload field is written from and parsed back to
Numerals == (0 .. 31) \cup {Epoch.year, Epoch.year + 1}

\* the decimal text of every number a payload is written from: the Numerals
\* and the timestamps
TextOf == [n \in Numerals \cup (0 .. MaxNow) |-> ToString(n)]

\* str() of a number, as the f-string of line 2578 formats it
Str(n) == TextOf[n]

\* the texts int() accepts, each with the number it returns
NumeralOf ==
    [text \in {Str(n) : n \in Numerals} |-> CHOOSE n \in Numerals : Str(n) = text]

\* int(text) returns a number (it raises ValueError otherwise)
IsInt(text) == text \in DOMAIN NumeralOf

\* int(text)
ParseInt(text) == NumeralOf[text]

\* line 2578: the payload of a regular invoice, as payload.split(":") cuts it
Payload(pid, uid, payment_type, period, promo_id, t) ==
    <<"plan", Str(pid), "user", Str(uid), "type", payment_type,
      "month", Str(period[1]), "year", Str(period[2]),
      "promo", Str(promo_id), Str(t)>>

\* lines 886-892 (parts[k] of the code is parts[k + 1] here): ok is FALSE when
\* an index is out of range or int() raises
ParsePayload(parts) ==
    IF Len(parts) < 10 THEN [ok |-> FALSE]
    ELSE IF ~IsInt(parts[2]) \/ ~IsInt(parts[8]) \/ ~IsInt(parts[10])
    THEN [ok |-> FALSE]
    ELSE IF Len(parts) > 11 /\ parts[12] # "0" /\ ~IsInt(parts[12])
    THEN [ok |-> FALSE]
    ELSE [ok           |-> TRUE,
          plan_id      |-> ParseInt(parts[2]),
          payment_type |-> parts[6],
          period_month |-> ParseInt(parts[8]),
          period_year  |-> ParseInt(parts[10]),
          promo_id     |-> IF Len(parts) > 11 /\ parts[12] # "0"
                           THEN ParseInt(parts[12]) ELSE 0]

\* requests are created while fewer than MaxRequests exist
RequestsOpen == Len(invoices) + Len(manual_payments) < MaxRequests

\* the button or session that starts a payment carries no code, or the code
\* of a menu shown to this user
PromoCarried(u, promo_id) == promo_id = 0 \/ <<u, promo_id>> \in promo_offers

\* lines 2441-2455: the amount of a payment type after the code, if the
\* registry has it, is applied
DiscountedAmount(p, payment_type, promo_id) ==
    IF promo_id \in PromoIds(promo_codes)
    THEN apply_promo_code(OriginalAmount(p, payment_type), promo_codes[promo_id])
    ELSE OriginalAmount(p, payment_type)

\* lines 2568-2582: the row of table invoices for an invoice of price_cents;
\* the payload is built for the period in force (paid tells whether the
\* invoice message has been paid)
Invoice(u, p, price_cents, payment_type, promo_id) ==
    [payload |-> Payload(p, u, payment_type, get_current_period(now), promo_id, now),
     user_id |-> u, amount_cents |-> price_cents, paid |-> FALSE]

\* process_card_payment that records the usage of the code with the invoice
process_card_payment_RecordsUsage(u, p, payment_type, promo_id) ==
    /\ RequestsOpen
    /\ PromoCarried(u, promo_id)
    /\ plan[p].group_id # 0
    /\ invoices' = Append(invoices,
          Invoice(u, p, DiscountedAmount(p, payment_type, promo_id), payment_type,
                  promo_id))
    /\ promo_usage' = IF promo_id = 0 THEN promo_usage
                      ELSE Append(promo_usage, [promo_id |-> promo_id, user_id |-> u])
    /\ last' = [Op("invoice", u, p, payment_type, "ok", 0, <<>>)
                  EXCEPT !.promo_id = promo_id]
    /\ UNCHANGED <<now, plan, promo_codes, record_start, manual_payments,
                   promo_offers, sweep_pending, user_states, menus, subs, invites, calls>>

\* process_card_payment, reached from the payment method buttons
\* (callback_paymethod, callback_paymethod_promo, callback_pay_with_promo): the
\* payload is built for the period in force, stored in table invoices and sent
\* as an invoice message that the user can pay later; the amount, here the
\* one callback_buy_with_promo computes, is not part of the payload
process_card_payment(u, p, payment_type, promo_id) ==
    /\ RequestsOpen
    /\ PromoCarried(u, promo_id)
    /\ IF plan[p].group_id = 0
       THEN \* lines 2552-2566: the plan names no group, no invoice is made
            /\ last' = [Op("invoice", u, p, payment_type, "no_group", 0, <<>>)
                          EXCEPT !.promo_id = promo_id]
            /\ UNCHANGED invoices
       ELSE /\ invoices' = Append(invoices,
                  Invoice(u, p, DiscountedAmount(p, payment_type, promo_id),
                          payment_type, promo_id))
            /\ last' = [Op("invoice", u, p, payment_type, "ok", 0, <<>>)
                          EXCEPT !.promo_id = promo_id]
    /\ UNCHANGED <<now, plan, promo_codes, promo_usage, record_start, manual_payments,
                   promo_offers, sweep_pending, user_states, menus, subs, invites, calls>>

\* handle_full_name, the last step of the manual checkout started by
\* process_manual_payment_start: the session holds the plan, the payment type
\* and the promo id the checkout was started with; the request is stored as
\* pending for the period in force
handle_full_name(u, p, payment_type, promo_id) ==
    /\ RequestsOpen
    /\ PromoCarried(u, promo_id)
    /\ manual_payments' = Append(manual_payments,
          [user_id |-> u, plan_id |-> p, payment_type |-> payment_type,
           period_month |-> get_current_period(now)[1],
           period_year |-> get_current_period(now)[2],
           promo_id |-> promo_id, status |-> "pending"])
    /\ last' = [Op("manual_request", u, p, payment_type, "ok", 0, <<>>)
                  EXCEPT !.promo_id = promo_id]
    /\ UNCHANGED <<now, plan, promo_codes, promo_usage, record_start, invoices,
                   promo_offers, sweep_pending, user_states, menus, subs, invites, calls>>

\* callback_cancel_payment: the session of the user is dropped, no table is
\* written; invoices and requests already created stay as they are
callback_cancel_payment(u) ==
    /\ last' = Op("cancel_payment", u, 0, "none", "ok", 0, <<>>)
    /\ UNCHANGED <<now, plan, promo_codes, promo_usage, record_start, invoices,
                   manual_payments, promo_offers, sweep_pending, user_states, menus, subs, invites, calls>>

\* lines 900-905 and 635-640: INSERT INTO promo_usage and used_count + 1
record_promo_usage(promo_id, u) ==
    /\ promo_usage' = Append(promo_usage, [promo_id |-> promo_id, user_id |-> u])
    /\ promo_codes' =
         [i \in PromoIds(promo_codes) |->
             IF i = promo_id
             THEN [promo_codes[i] EXCEPT !.used_count = @ + 1]
             ELSE promo_codes[i]]

\* got_payment (lines 881-905), the handler of a successful_payment message
\* with payload parts from user u: the payload is parsed (an exception ends
\* the handler), activate_subscription runs with the plan and the payment type
\* of the payload and, when it returns success, the usage of the code is
\* recorded.  used_ts is written and never read; usage rows do not carry it.
\* The referral cashback and the messages that follow write no table of the
\* model.
got_payment(u, parts) ==
    /\ LET tok == ParsePayload(parts)
       IN  IF ~tok.ok
           THEN /\ last' = [Op("got_payment", u, 0, "none", "raised", 0, <<>>)
                              EXCEPT !.payload = parts]
                /\ UNCHANGED <<subs, invites, promo_codes, promo_usage>>
           ELSE /\ invites < MaxInvites
                /\ \E e \in LatestActive(subs, u, tok.plan_id), link_ok \in BOOLEAN :
                      LET loc == [ActRead(subs, u, tok.plan_id, tok.payment_type,
                                          0, now, e) EXCEPT !.payload = parts]
                      IN  /\ ActFinish(loc, link_ok)
                          /\ IF ActOk(loc, link_ok) /\ tok.promo_id > 0
                             THEN record_promo_usage(tok.promo_id, u)
                             ELSE UNCHANGED <<promo_codes, promo_usage>>
    /\ UNCHANGED <<now, plan, calls, record_start, manual_payments, promo_offers, sweep_pending, user_states, menus>>

\* the user pays invoice k: Telegram delivers its payload to got_payment once
PayInvoice(k) ==
    /\ k <= Len(invoices)
    /\ ~invoices[k].paid
    /\ got_payment(invoices[k].user_id, invoices[k].payload)
    /\ invoices' = [invoices EXCEPT ![k].paid = TRUE]

\* payloads no regular invoice of the period carries: the renewal format of
\* line 2575 (9 fields), a plan id and a month that are not numbers, and a
\* payment type that activate_subscription does not know
ForeignPayloads ==
    {<<"renewal", "1", "user", "1", "end_ts", "107", "promo", "0", "93">>,
     <<"plan", "x", "user", "1", "type", "full", "month", "12", "year", "2025",
       "promo", "0", "93">>,
     <<"plan", "1", "user", "1", "type", "full", "month", "dec", "year", "2025",
       "promo", "0", "93">>,
     <<"plan", "1", "user", "1", "type", "gift", "month", "12", "year", "2025",
       "promo", "1", "93">>}

\* a successful_payment message whose payload is one of ForeignPayloads
ForeignPayment(u, parts) ==
    /\ got_payment(u, parts)
    /\ UNCHANGED invoices

\* callback_approve_payment (lines 605-660): the administrator approves the
\* pending request k
callback_approve_payment(k) ==
    /\ k <= Len(manual_payments)
    /\ manual_payments[k].status = "pending"
    /\ invites < MaxInvites
    /\ LET mp == manual_payments[k]
       IN  \E e \in LatestActive(subs, mp.user_id, mp.plan_id), link_ok \in BOOLEAN :
              LET loc == [ActRead(subs, mp.user_id, mp.plan_id, mp.payment_type,
                                  0, now, e) EXCEPT !.request = k]
              IN  /\ ActFinish(loc, link_ok)
                  /\ IF ActOk(loc, link_ok)
                     THEN /\ manual_payments' =
                                [manual_payments EXCEPT ![k].status = "approved"]
                          /\ IF mp.promo_id # 0
                             THEN record_promo_usage(mp.promo_id, mp.user_id)
                             ELSE UNCHANGED <<promo_codes, promo_usage>>
                     ELSE UNCHANGED <<manual_payments, promo_codes, promo_usage>>
    /\ UNCHANGED <<now, plan, calls, record_start, invoices, promo_offers, sweep_pending, user_states, menus>>

\* callback_approve_payment on worker thread th, up to the credential request
\* inside activate_subscription: the SELECT of the pending request (lines
\* 614-625) and the reads of activate_subscription
ApproveBegin(th, k) ==
    /\ calls[th] = NoCall
    /\ k <= Len(manual_payments)
    /\ manual_payments[k].status = "pending"
    /\ LET mp == manual_payments[k]
       IN  /\ \E e \in LatestActive(subs, mp.user_id, mp.plan_id) :
                 calls' = [calls EXCEPT ![th] =
                              [ActRead(subs, mp.user_id, mp.plan_id, mp.payment_type,
                                       0, now, e) EXCEPT !.request = k]]
           /\ last' = [Op("approve_begin", mp.user_id, mp.plan_id, mp.payment_type,
                          "none", 0, <<>>) EXCEPT !.request = k]
    /\ UNCHANGED <<now, plan, promo_codes, promo_usage, record_start, invoices,
                   manual_payments, promo_offers, sweep_pending, user_states, menus,
                   subs, invites>>

\* the rest of callback_approve_payment on thread th: the credential request
\* and the write of activate_subscription, then lines 630-640
ApproveEnd(th) ==
    /\ calls[th] # NoCall
    /\ calls[th].request # 0
    /\ invites < MaxInvites
    /\ LET loc == calls[th]
           k   == loc.request
       IN  \E link_ok \in BOOLEAN :
              /\ ActFinish(loc, link_ok)
              /\ IF ActOk(loc, link_ok)
                 THEN /\ manual_payments' =
                            [manual_payments EXCEPT ![k].status = "approved"]
                      /\ IF manual_payments[k].promo_id # 0
                         THEN record_promo_usage(manual_payments[k].promo_id, loc.user_id)
                         ELSE UNCHANGED <<promo_codes, promo_usage>>
                 ELSE UNCHANGED <<manual_payments, promo_codes, promo_usage>>
    /\ calls' = [calls EXCEPT ![th] = NoCall]
    /\ UNCHANGED <<now, plan, record_start, invoices, promo_offers, sweep_pending,
                   user_states, menus>>

\* handle_payment_review (lines 3594-3610): the administrator rejects the
\* pending request k ("approve_payment:" never reaches this handler, the
\* handler of line 605 is registered first)
handle_payment_review(k) ==
    /\ k <= Len(manual_payments)
    /\ manual_payments[k].status = "pending"
    /\ manual_payments' = [manual_payments EXCEPT ![k].status = "rejected"]
    /\ last' = Op("reject_payment", manual_payments[k].user_id,
                  manual_payments[k].plan_id, manual_payments[k].payment_type,
                  "ok", 0, <<>>)
    /\ UNCHANGED <<now, plan, promo_codes, promo_usage, record_start, invoices,
                   promo_offers, sweep_pending, user_states, menus, subs, invites, calls>>

----------------------------------------------------------------------------

Init ==
    /\ now = 0
    /\ plan \in [Plans -> [price : Prices, group_id : Groups \cup {0}]]
    /\ subs = <<>>
    /\ invites = 0
    /\ last = NoOp
    /\ calls = [th \in Threads |-> NoCall]
    /\ promo_codes = <<>>
    /\ promo_usage = <<>>
    /\ record_start = FALSE
    /\ invoices = <<>>
    /\ manual_payments = <<>>
    /\ promo_offers = {}
    /\ sweep_pending = {}
    /\ user_states = [u \in Users |-> NoState]
    /\ menus = {}

Next ==
    \/ Tick
    \/ \E u \in Users, p \in Plans, ty \in PaymentTypes : Activate(u, p, ty)
    \/ \E u \in Users, p \in Plans : GetPaymentOptions(u, p)
    \/ Sweep6
    \/ Sweep21
    \/ SweepDaily

Spec == Init /\ [][Next]_vars

\* the same program with handlers interleaving at the credential request,
\* observed from 00:00 of day 15 of the Epoch month for ConcTicks ticks
ConcStart == EndOfDayTs(Epoch.year, Epoch.month, 15) - LastSlot

TickConc == Advance(ConcStart + ConcTicks)

InitConc ==
    /\ now = ConcStart
    /\ plan \in [Plans -> [price : Prices, group_id : Groups \cup {0}]]
    /\ subs = <<>>
    /\ invites = 0
    /\ last = NoOp
    /\ calls = [th \in Threads |-> NoCall]
    /\ promo_codes = <<>>
    /\ promo_usage = <<>>
    /\ record_start = FALSE
    /\ invoices = <<>>
    /\ manual_payments = <<>>
    /\ promo_offers = {}
    /\ sweep_pending = {}
    /\ user_states = [u \in Users |-> NoState]
    /\ menus = {}

NextConc ==
    \/ TickConc
    \/ \E th \in Threads, u \in Users, p \in Plans, ty \in PaymentTypes :
          ActBegin(th, u, p, ty)
    \/ \E th \in Threads : ActEnd(th)
    \/ SweepDaily

SpecConc == InitConc /\ [][NextConc]_vars

\* the sweeper thread's 01:00 branch interleaved with payment completions,
\* from the same start as SpecConc
RowIds == 1 .. MaxInvites

NextRace ==
    \/ TickConc
    \/ \E u \in Users, p \in Plans, ty \in PaymentTypes : Activate(u, p, ty)
    \/ SweepRead
    \/ \E i \in RowIds : SweepRow(i)

SpecRace == InitConc /\ [][NextRace]_vars

\* the activation engine over the first FrameTicks ticks of the Epoch month,
\* with the start_ts column recorded in the rows
TickFrame == Advance(FrameTicks)

InitFrame ==
    /\ now = 0
    /\ plan \in [Plans -> [price : Prices, group_id : Groups \cup {0}]]
    /\ subs = <<>>
    /\ invites = 0
    /\ last = NoOp
    /\ calls = [th \in Threads |-> NoCall]
    /\ promo_codes = <<>>
    /\ promo_usage = <<>>
    /\ record_start = TRUE
    /\ invoices = <<>>
    /\ manual_payments = <<>>
    /\ promo_offers = {}
    /\ sweep_pending = {}
    /\ user_states = [u \in Users |-> NoState]
    /\ menus = {}

NextFrame ==
    \/ TickFrame
    \/ \E u \in Users, p \in Plans, ty \in PaymentTypes : Activate(u, p, ty)

SpecFrame == InitFrame /\ [][NextFrame]_vars

\* the promo engine: a registry of one code as the database file holds it when
\* the bot starts (a row of the creation dialogue; is_active as the operator
\* left it in the file, no statement of the program clears it), observed for
\* PromoTicks ticks
TickPromo == Advance(PromoTicks)

\* a successful_payment message for a regular payload with the given fields
PromoPayment(u, p, payment_type, promo_id) ==
    /\ got_payment(u, Payload(p, u, payment_type, get_current_period(now), promo_id, now))
    /\ UNCHANGED invoices

\* users who type codes: the buyers and one who never completes a payment
PromoUsers == Users \cup {2}

\* the ids the text of a code resolves to: the code of the registry and an id
\* no row has
TypedPromos == {1, 2}

\* the promo field of a payload: 0 for none, or the code of the registry
PaidPromos == {0, 1}

\* the payment types of the checkouts observed
PromoPaymentTypes == {"full", "partial"}

InitPromo ==
    /\ now = 0
    /\ plan \in [Plans -> [price : Prices \cup {0}, group_id : Groups]]
    /\ subs = <<>>
    /\ invites = 0
    /\ last = NoOp
    /\ calls = [th \in Threads |-> NoCall]
    /\ \E r \in CreatedPromos, a \in BOOLEAN :
          promo_codes = <<[r EXCEPT !.is_active = a]>>
    /\ promo_usage = <<>>
    /\ record_start = FALSE
    /\ invoices = <<>>
    /\ manual_payments = <<>>
    /\ promo_offers = {}
    /\ sweep_pending = {}
    /\ user_states = [u \in Users |-> NoState]
    /\ menus = {}

NextPromo ==
    \/ TickPromo
    \/ \E u \in PromoUsers, p \in Plans, ty \in PromoPaymentTypes, i \in TypedPromos :
          handle_promo_code_input(u, p, ty, i)
    \/ \E u \in PromoUsers, p \in Plans, ty \in PromoPaymentTypes, i \in TypedPromos :
          callback_buy_with_promo(u, p, ty, i)
    \/ \E u \in Users, p \in Plans, ty \in PromoPaymentTypes, i \in PaidPromos :
          PromoPayment(u, p, ty, i)

SpecPromo == InitPromo /\ [][NextPromo]_vars

\* the payment requests from 23:59:59 of the last day of the Epoch month, for
\* PayTicks ticks, with a registry of one active 10 percent code that has no
\* term and may be used once
PayStart == EndOfDayTs(Epoch.year, Epoch.month, DaysInMonth(Epoch.month, Epoch.year))

TickPay == Advance(PayStart + PayTicks)

PayPromos ==
    {r \in CreatedPromos :
        /\ r.discount_percent = 10 /\ r.expires_ts = 0
        /\ r.max_uses = 1 /\ r.is_active}

\* the price of the plan on sale
PayPrices == {1000}

\* the code a user of the checkout types
PayTypedPromos == {1}

\* the payment type of the checkouts observed
PayPaymentTypes == {"full"}

InitPay ==
    /\ now = PayStart
    /\ plan \in [Plans -> [price : PayPrices, group_id : Groups \cup {0}]]
    /\ subs = <<>>
    /\ invites = 0
    /\ last = NoOp
    /\ calls = [th \in Threads |-> NoCall]
    /\ \E r \in PayPromos : promo_codes = <<r>>
    /\ promo_usage = <<>>
    /\ record_start = FALSE
    /\ invoices = <<>>
    /\ manual_payments = <<>>
    /\ promo_offers = {}
    /\ sweep_pending = {}
    /\ user_states = [u \in Users |-> NoState]
    /\ menus = {}

NextPay ==
    \/ TickPay
    \/ \E u \in Users, p \in Plans, ty \in PayPaymentTypes, i \in PayTypedPromos :
          handle_promo_code_input(u, p, ty, i)
    \/ \E u \in Users, p \in Plans, ty \in PayPaymentTypes, i \in PayTypedPromos :
          callback_buy_with_promo(u, p, ty, i)
    \/ \E u \in Users, p \in Plans, ty \in PayPaymentTypes, i \in PaidPromos :
          process_card_payment(u, p, ty, i)
    \/ \E u \in Users, p \in Plans, ty \in PayPaymentTypes, i \in PaidPromos :
          handle_full_name(u, p, ty, i)
    \/ \E u \in Users : callback_cancel_payment(u)
    \/ \E k \in 1 .. MaxRequests : PayInvoice(k)
    \/ \E k \in 1 .. MaxRequests : callback_approve_payment(k)
    \/ \E k \in 1 .. MaxRequests : handle_payment_review(k)

SpecPay == InitPay /\ [][NextPay]_vars

\* the payment handler fed with the payloads of invoices and with
\* ForeignPayloads
NextToken ==
    \/ TickPay
    \/ \E u \in Users, p \in Plans, ty \in PayPaymentTypes :
          process_card_payment(u, p, ty, 0)
    \/ \E k \in 1 .. MaxRequests : PayInvoice(k)
    \/ \E u \in Users, parts \in ForeignPayloads : ForeignPayment(u, parts)

SpecToken == InitPay /\ [][NextToken]_vars

\* several users apply the code of the registry and pay by card
NextLimit ==
    \/ \E u \in PromoUsers, p \in Plans, ty \in PayPaymentTypes, i \in PayTypedPromos :
          handle_promo_code_input(u, p, ty, i)
    \/ \E u \in PromoUsers, p \in Plans, ty \in PayPaymentTypes, i \in PaidPromos :
          process_card_payment(u, p, ty, i)
    \/ \E k \in 1 .. MaxRequests : PayInvoice(k)

SpecLimit == InitPay /\ [][NextLimit]_vars

\* manual payment requests reviewed by administrators whose commands run on
\* separate worker threads
NextReview ==
    \/ \E u \in Users, p \in Plans, ty \in PayPaymentTypes, i \in PayTypedPromos :
          handle_promo_code_input(u, p, ty, i)
    \/ \E u \in Users, p \in Plans, ty \in PayPaymentTypes, i \in PaidPromos :
          handle_full_name(u, p, ty, i)
    \/ \E th \in Threads, k \in 1 .. MaxRequests : ApproveBegin(th, k)
    \/ \E th \in Threads : ApproveEnd(th)
    \/ \E k \in 1 .. MaxRequests : handle_payment_review(k)

SpecReview == InitPay /\ [][NextReview]_vars

----------------------------------------------------------------------------
(* The checkout menus: inline buttons stay in the chat after later menus are
   shown, user_states keeps one session per user *)

\* a key the session dictionary does not hold
Absent == 0 - 1

\* an inline button in the chat of user u: kind is the prefix of its callback
\* data, mtype the type of the payment method its method id names, price the
\* amount printed on it (Absent when it prints none)
Button(u, kind, p, mtype, payment_type, promo_id, price) ==
    [user_id |-> u, kind |-> kind, plan_id |-> p, mtype |-> mtype,
     payment_type |-> payment_type, promo_id |-> promo_id, price |-> price]

\* an entry of user_states
Session(mode, p, original_price, final_price, payment_type, promo_id) ==
    [mode |-> mode, plan_id |-> p, original_price |-> original_price,
     final_price |-> final_price, payment_type |-> payment_type,
     promo_id |-> promo_id, amount_cents |-> Absent]

\* lines 2622-2634: the session process_manual_payment_start stores
ManualSession(p, price_cents, payment_type, promo_id) ==
    [Session("manual_payment", p, Absent, Absent, payment_type, promo_id)
        EXCEPT !.amount_cents = price_cents]

\* get_active_payment_methods: the types of the rows of table payment_methods
\* that administrators keep (a card method, or a card and a manual one)
MethodTables == {<<"card">>, <<"card", "manual">>}

Range(s) == {s[k] : k \in 1 .. Len(s)}

\* the outcome of handing a request of price_cents to the payment method
RequestResult(p, mtype) ==
    IF mtype = "manual" THEN "manual"
    ELSE IF plan[p].group_id = 0 THEN "no_group" ELSE "invoice"

\* process_card_payment or process_manual_payment_start called by a menu
\* handler that leaves the sessions as S: a card method stores and sends an
\* invoice, a manual one stores the manual session
Request(u, p, mtype, price_cents, payment_type, promo_id, S) ==
    IF mtype = "manual"
    THEN /\ user_states' = [S EXCEPT ![u] = ManualSession(p, price_cents, payment_type,
                                                          promo_id)]
         /\ UNCHANGED invoices
    ELSE /\ user_states' = S
         /\ invoices' = IF plan[p].group_id = 0 THEN invoices
                        ELSE Append(invoices, Invoice(u, p, price_cents, payment_type,
                                                     promo_id))

\* lines 1950-1953, 2441-2444: the amount of a payment type on price_cents
TypeAmount(price_cents, payment_type) ==
    IF payment_type \in {"partial", "second_part", "half_month", "second_part_late"}
    THEN price_cents \div 2
    ELSE price_cents

\* show_plan_full_info (lines 1255-1325): the plan menu with one buy button
\* per option of get_payment_options, a full option skipped for a first-half
\* payer, and the promo button
show_plan_full_info(u, p) ==
    /\ \E e \in LatestActive(subs, u, p) :
          LET chk  == check_existing_active_subscription(subs, now, e)
              paid == /\ FullyPaid(subs, chk)
                      /\ subs[e].month = get_current_period(now)[1]
                      /\ subs[e].year = get_current_period(now)[2]
              opts == get_payment_options(subs, p, now, e)
              shown == {o \in Range(opts) :
                           ~(HasPaidFirstPart(subs, chk)
                               /\ o.type \in {"full", "full_anytime"})}
          IN  /\ last' = Op("plan_menu", u, p, "none",
                            IF paid THEN "already_paid" ELSE "ok", e,
                            IF paid THEN <<>> ELSE opts)
              /\ menus' = IF paid \/ opts = <<>> THEN menus
                          ELSE menus
                                 \cup {Button(u, "buy", p, "none", o.type, 0, o.price) :
                                          o \in shown}
                                 \cup {Button(u, "enter_promo_main", p, "none", "none",
                                              0, Absent)}
    /\ UNCHANGED <<now, plan, promo_codes, promo_usage, record_start, invoices,
                   manual_payments, promo_offers, sweep_pending, user_states, subs,
                   invites, calls>>

\* the payment method buttons of lines 2005-2011 and the promo button
MethodButtons(u, p, payment_type, methods) ==
    {Button(u, "paymethod", p, m, payment_type, 0, Absent) : m \in Range(methods)}
        \cup {Button(u, "enter_promo", p, "none", payment_type, 0, Absent)}

\* the payment method buttons of lines 2283 and 2505 for an applied code
PromoMethodButtons(u, p, payment_type, promo_id, methods) ==
    {Button(u, "paymethod_promo", p, m, payment_type, promo_id, Absent) :
        m \in Range(methods)}

\* callback_buy_handler (lines 1862-2011) for a buy button in the chat:
\* it answers a fully paid period and a repeated first half, sends a
\* first-half payer who asks for the whole month to the second part, and
\* else stores the session with the amount of the type and either starts the
\* request with the only payment method or shows the method buttons
callback_buy_handler(u, p, payment_type, methods) ==
    /\ RequestsOpen
    /\ \E b \in menus :
          b.user_id = u /\ b.kind = "buy" /\ b.plan_id = p /\ b.payment_type = payment_type
    /\ \E e \in LatestActive(subs, u, p) :
          LET chk     == check_existing_active_subscription(subs, now, e)
              current == /\ chk.has
                         /\ subs[e].month = get_current_period(now)[1]
                         /\ subs[e].year = get_current_period(now)[2]
              amount_cents == TypeAmount(plan[p].price, payment_type)
              S == [user_states EXCEPT
                       ![u] = Session("payment_method_selection", p, amount_cents,
                                      Absent, payment_type, Absent)]
              Done(res) == PromoDone("buy", u, p, payment_type, res, 0, Absent,
                                     amount_cents)
          IN  IF current /\ subs[e].part_paid = "full"
              THEN /\ last' = Done("already_paid")
                   /\ UNCHANGED <<user_states, invoices, menus>>
              ELSE IF current /\ subs[e].part_paid = "first"
                      /\ payment_type \in {"partial", "full", "full_anytime"}
              THEN /\ last' = Done(IF payment_type = "partial" THEN "first_paid"
                                   ELSE "second_part_offered")
                   /\ UNCHANGED <<user_states, invoices, menus>>
              ELSE IF Len(methods) = 1
              THEN /\ Request(u, p, methods[1], amount_cents, payment_type, 0, S)
                   /\ last' = Done(RequestResult(p, methods[1]))
                   /\ UNCHANGED menus
              ELSE /\ user_states' = S
                   /\ menus' = menus \cup MethodButtons(u, p, payment_type, methods)
                   /\ last' = Done("menu")
                   /\ UNCHANGED invoices
    /\ UNCHANGED <<now, plan, promo_codes, promo_usage, record_start, manual_payments,
                   promo_offers, sweep_pending, subs, invites, calls>>

\* callback_paymethod (lines 2731-2771) for a payment method button in the
\* chat: the plan and the payment type are those of the button, the amount
\* is original_price of the session (a session without the key raises
\* KeyError, which the handler catches)
callback_paymethod(u, p, mtype, payment_type) ==
    /\ RequestsOpen
    /\ Button(u, "paymethod", p, mtype, payment_type, 0, Absent) \in menus
    /\ LET state == user_states[u]
           Done(res, amount) == PromoDone("paymethod", u, p, payment_type, res, 0,
                                          Absent, amount)
       IN  IF state.mode = "none"
           THEN /\ last' = Done("no_session", Absent)
                /\ UNCHANGED <<user_states, invoices>>
           ELSE IF state.original_price = Absent
           THEN /\ last' = Done("raised", Absent)
                /\ UNCHANGED <<user_states, invoices>>
           ELSE /\ Request(u, p, mtype, state.original_price, payment_type, 0,
                           user_states)
                /\ last' = Done(RequestResult(p, mtype), state.original_price)
    /\ UNCHANGED <<now, plan, promo_codes, promo_usage, record_start, manual_payments,
                   promo_offers, sweep_pending, menus, subs, invites, calls>>

\* callback_enter_promo_main (lines 1630-1672): the promo button of the plan
\* menu stores a session with the price of the plan and no payment type
callback_enter_promo_main(u, p) ==
    /\ Button(u, "enter_promo_main", p, "none", "none", 0, Absent) \in menus
    /\ user_states' = [user_states EXCEPT
                          ![u] = Session("promo_input_main", p, plan[p].price, Absent,
                                         "none", Absent)]
    /\ last' = PromoDone("enter_promo_main", u, p, "none", "ok", 0, Absent, Absent)
    /\ UNCHANGED <<now, plan, promo_codes, promo_usage, record_start, invoices,
                   manual_payments, promo_offers, sweep_pending, menus, subs, invites,
                   calls>>

\* callback_enter_promo (lines 2080-2102): the promo button of a payment
\* method menu switches the session in force to promo_input
callback_enter_promo(u, p, payment_type) ==
    /\ Button(u, "enter_promo", p, "none", payment_type, 0, Absent) \in menus
    /\ IF user_states[u].mode = "none"
       THEN /\ last' = PromoDone("enter_promo", u, p, payment_type, "no_session", 0,
                                 Absent, Absent)
            /\ UNCHANGED user_states
       ELSE /\ user_states' = [user_states EXCEPT ![u].mode = "promo_input"]
            /\ last' = PromoDone("enter_promo", u, p, payment_type, "ok", 0, Absent,
                                 Absent)
    /\ UNCHANGED <<now, plan, promo_codes, promo_usage, record_start, invoices,
                   manual_payments, promo_offers, sweep_pending, menus, subs, invites,
                   calls>>

\* lines 2338-2345, 2361-2365: the amount show_payment_options_with_promo
\* prints for an option when the session holds final_price
discounted_price(final_price, payment_type) ==
    IF payment_type \in {"partial", "second_part", "half_month", "second_part_late"}
    THEN final_price \div 2
    ELSE final_price

\* the buttons of show_payment_options_with_promo (lines 2316-2374): one per
\* option of get_payment_options, which leads to the only payment method when
\* it is a manual one and to callback_buy_with_promo otherwise
PromoOptionButtons(u, p, final_price, promo_id, opts, methods) ==
    IF opts = <<>> \/ methods = <<>> THEN {}
    ELSE {IF Len(methods) = 1 /\ methods[1] = "manual"
          THEN Button(u, "paymethod_promo", p, "manual", o.type, promo_id,
                      discounted_price(final_price, o.type))
          ELSE Button(u, "buy_with_promo", p, "none", o.type, promo_id,
                      discounted_price(final_price, o.type)) :
             o \in Range(opts)}

\* handle_promo_code_input (lines 2169-2238) on the session of the user: the
\* text names the code promo_id (an id outside the registry when
\* get_promo_code finds none); an accepted code is applied to original_price
\* of the session and stored with final_price.  A session opened from the
\* plan menu is then shown the options with their discounted prices
\* (show_payment_options_with_promo), any other the payment methods
\* (show_payment_methods_with_promo), where the only method starts the
\* request at once.
PromoCodeMessage(u, promo_id, methods) ==
    /\ RequestsOpen
    /\ user_states[u].mode \in {"promo_input", "promo_input_main"}
    /\ LET state == user_states[u]
           p     == state.plan_id
           res   == IF promo_id \notin PromoIds(promo_codes) THEN "not_found"
                    ELSE can_use_promo_code(promo_codes, promo_usage, promo_id, u, now)
           new_price == apply_promo_code(state.original_price, promo_codes[promo_id])
           Done(r, ty, amount) == PromoDone("promo_message", u, p, ty, r, promo_id,
                                            state.original_price, amount)
       IN  IF res # "ok"
           THEN /\ last' = Done(res, state.payment_type, Absent)
                /\ UNCHANGED <<user_states, invoices, menus>>
           ELSE IF state.original_price = Absent
           THEN /\ last' = Done("raised", state.payment_type, Absent)
                /\ UNCHANGED <<user_states, invoices, menus>>
           ELSE IF state.mode = "promo_input_main"
           THEN /\ \E e \in LatestActive(subs, u, p) :
                      menus' = menus \cup
                                 PromoOptionButtons(u, p, new_price, promo_id,
                                     get_payment_options(subs, p, now, e), methods)
                /\ user_states' =
                      [user_states EXCEPT
                          ![u] = Session("payment_method_with_promo", p, plan[p].price,
                                         new_price, state.payment_type, promo_id)]
                /\ last' = Done("menu", state.payment_type, new_price)
                /\ UNCHANGED invoices
           ELSE LET S == [user_states EXCEPT
                             ![u] = Session("promo_applied", p, state.original_price,
                                            new_price, state.payment_type, promo_id)]
                IN  IF state.payment_type = "none"
                    THEN \* a session opened from the plan menu holds no
                         \* payment_type: KeyError after the session is updated
                         /\ user_states' = S
                         /\ last' = Done("raised", state.payment_type, new_price)
                         /\ UNCHANGED <<invoices, menus>>
                    ELSE IF Len(methods) = 1
                    THEN /\ Request(u, p, methods[1], new_price, state.payment_type,
                                    promo_id, S)
                         /\ last' = Done(RequestResult(p, methods[1]),
                                         state.payment_type, new_price)
                         /\ UNCHANGED menus
                    ELSE /\ user_states' = S
                         /\ menus' = menus \cup PromoMethodButtons(u, p,
                                        state.payment_type, promo_id, methods)
                         /\ last' = Done("menu", state.payment_type, new_price)
                         /\ UNCHANGED invoices
    /\ UNCHANGED <<now, plan, promo_codes, promo_usage, record_start, manual_payments,
                   promo_offers, sweep_pending, subs, invites, calls>>

\* callback_buy_with_promo (lines 2400-2513) for an option button in the
\* chat: the amount of the type is computed from the price of the plan, the
\* code is looked up and applied to it, the session is stored and the request
\* starts with the only payment method or the method buttons are shown.  The
\* record keeps the amount printed on the button (price) and the amount
\* requested (new_price).
BuyWithPromo(u, p, payment_type, promo_id, methods) ==
    /\ RequestsOpen
    /\ \E b \in menus :
          /\ b.user_id = u /\ b.kind = "buy_with_promo" /\ b.plan_id = p
          /\ b.payment_type = payment_type /\ b.promo_id = promo_id
          /\ LET original_amount   == TypeAmount(plan[p].price, payment_type)
                 discounted_amount == DiscountedAmount(p, payment_type, promo_id)
                 S == [user_states EXCEPT
                          ![u] = Session("payment_method_with_promo", p,
                                         original_amount, discounted_amount,
                                         payment_type, promo_id)]
                 Done(res) == PromoDone("buy_with_promo_button", u, p, payment_type,
                                        res, promo_id, b.price, discounted_amount)
             IN  IF Len(methods) = 1
                 THEN /\ Request(u, p, methods[1], discounted_amount, payment_type,
                                 promo_id, S)
                      /\ last' = Done(RequestResult(p, methods[1]))
                      /\ UNCHANGED menus
                 ELSE /\ user_states' = S
                      /\ menus' = menus \cup PromoMethodButtons(u, p, payment_type,
                                                                promo_id, methods)
                      /\ last' = Done("menu")
                      /\ UNCHANGED invoices
    /\ UNCHANGED <<now, plan, promo_codes, promo_usage, record_start, manual_payments,
                   promo_offers, sweep_pending, subs, invites, calls>>

\* callback_paymethod_promo (lines 2773-2820) for a payment method button in
\* the chat: plan, payment type and code are those of the button, the amount
\* is final_price of the session, which must hold the key
callback_paymethod_promo(u, p, mtype, payment_type, promo_id) ==
    /\ RequestsOpen
    /\ \E b \in menus :
          /\ b.user_id = u /\ b.kind = "paymethod_promo" /\ b.plan_id = p
          /\ b.mtype = mtype /\ b.payment_type = payment_type /\ b.promo_id = promo_id
          /\ LET state == user_states[u]
                 Done(res, amount) == PromoDone("paymethod_promo", u, p, payment_type,
                                                res, promo_id, b.price, amount)
             IN  IF state.mode = "none"
                 THEN /\ last' = Done("no_session", Absent)
                      /\ UNCHANGED <<user_states, invoices>>
                 ELSE IF state.final_price = Absent
                 THEN /\ last' = Done("missing_fields", Absent)
                      /\ UNCHANGED <<user_states, invoices>>
                 ELSE /\ Request(u, p, mtype, state.final_price, payment_type,
                                 promo_id, user_states)
                      /\ last' = Done(RequestResult(p, mtype), state.final_price)
    /\ UNCHANGED <<now, plan, promo_codes, promo_usage, record_start, manual_payments,
                   promo_offers, sweep_pending, menus, subs, invites, calls>>

\* the checkout menus from 23:59:59 of day 5 of the Epoch month, the last
\* moment of the first payment window, for MenuTicks ticks, with a registry
\* of one unlimited code without a term
MenuStart == EndOfDayTs(Epoch.year, Epoch.month, 5)

TickMenu == Advance(MenuStart + MenuTicks)

MenuPromos == {r \in CreatedPromos : r.expires_ts = 0 /\ r.max_uses = 0}

\* the payment types of buy buttons
MenuPaymentTypes == {"full", "partial"}

InitMenu ==
    /\ now = MenuStart
    /\ plan \in [Plans -> [price : Prices, group_id : Groups]]
    /\ subs = <<>>
    /\ invites = 0
    /\ last = NoOp
    /\ calls = [th \in Threads |-> NoCall]
    /\ \E r \in MenuPromos : promo_codes = <<r>>
    /\ promo_usage = <<>>
    /\ record_start = FALSE
    /\ invoices = <<>>
    /\ manual_payments = <<>>
    /\ promo_offers = {}
    /\ sweep_pending = {}
    /\ user_states = [u \in Users |-> NoState]
    /\ menus = {}

\* the menus without codes: the plan menu, its buy buttons and the payment
\* method buttons, across the end of the first payment window
NextMenu ==
    \/ TickMenu
    \/ \E u \in Users, p \in Plans : show_plan_full_info(u, p)
    \/ \E u \in Users, p \in Plans, ty \in MenuPaymentTypes, methods \in MethodTables :
          callback_buy_handler(u, p, ty, methods)
    \/ \E u \in Users, p \in Plans, m \in {"card", "manual"}, ty \in MenuPaymentTypes :
          callback_paymethod(u, p, m, ty)

SpecMenu == InitMenu /\ [][NextMenu]_vars

\* the menus of a code entered from the plan menu or from a payment method
\* menu, within the first payment window
NextPromoMenu ==
    \/ \E u \in Users, p \in Plans : show_plan_full_info(u, p)
    \/ \E u \in Users, p \in Plans, ty \in MenuPaymentTypes, methods \in MethodTables :
          callback_buy_handler(u, p, ty, methods)
    \/ \E u \in Users, p \in Plans : callback_enter_promo_main(u, p)
    \/ \E u \in Users, p \in Plans, ty \in MenuPaymentTypes : callback_enter_promo(u, p, ty)
    \/ \E u \in Users, i \in PayTypedPromos, methods \in MethodTables :
          PromoCodeMessage(u, i, methods)
    \/ \E u \in Users, p \in Plans, ty \in MenuPaymentTypes, i \in PayTypedPromos,
          methods \in MethodTables :
          BuyWithPromo(u, p, ty, i, methods)
    \/ \E u \in Users, p \in Plans, m \in {"card", "manual"}, ty \in MenuPaymentTypes,
          i \in PayTypedPromos :
          callback_paymethod_promo(u, p, m, ty, i)

SpecPromoMenu == InitMenu /\ [][NextPromoMenu]_vars

----------------------------------------------------------------------------
(* Properties *)

RowsOf(u, p) == {i \in Ids(subs) : subs[i].user_id = u /\ subs[i].plan_id = p}

Today == now_local(now)

\* the row the resolver fetched is credited to the period in force
InCurrentPeriod(i) ==
    subs[i].month = Today.month /\ subs[i].year = Today.year

\* get_payment_options has just answered for a user whose fetched row has
\* the given part_paid for the current period
AnsweredWith(part_paid) ==
    /\ last.op = "options"
    /\ last.sub_id # 0
    /\ subs[last.sub_id].part_paid = part_paid
    /\ InCurrentPeriod(last.sub_id)

\* get_payment_options has just answered for a user with no row for the plan
AnsweredNoPayment ==
    /\ last.op = "options"
    /\ RowsOf(last.user_id, last.plan_id) = {}

Price == plan[last.plan_id].price

\* C1: with payment completions and sweeps each run to completion, at most
\* one subscription row per (user, plan) is active.
C1_OneActiveRowPerPair ==
    \A u \in Users, p \in Plans : Cardinality(ActiveIds(subs, u, p)) <= 1

\* a pair with a revoked row and a newer active row, just after an activation
C1_Witness ==
    /\ last.op = "activate" /\ last.result = "ok"
    /\ \E i, j \in RowsOf(last.user_id, last.plan_id) :
          ~subs[i].active /\ subs[i].removed /\ subs[j].active

\* C2: two activate_subscription calls for one (user, plan) that interleave
\* between the SELECT of the active row and the write never leave two active
\* rows for the pair once both have returned.
C2_NoTwoActiveAfterRace ==
    (\A th \in Threads : calls[th] = NoCall)
        => \A u \in Users, p \in Plans : Cardinality(ActiveIds(subs, u, p)) < 2

\* C3: with part_paid=first for the current period, on any day, no option is
\* of type full or full_anytime and none costs the full plan price.
C3_NoFullOptionAfterFirstHalf ==
    AnsweredWith("first")
        => \A k \in 1 .. Len(last.options) :
              /\ last.options[k].type \notin {"full", "full_anytime"}
              /\ last.options[k].price # Price

\* C4: with part_paid=full for the current period the resolver returns the
\* empty list on every day of the month.
C4_FullPaidNoOptions ==
    AnsweredWith("full") => last.options = <<>>

\* asked in the late phase of a fully paid period
C4_Witness ==
    AnsweredWith("full") /\ Today.day >= 21 /\ last.options = <<>>

\* C5: with part_paid=first for the current period, on days 15..20 the only
\* option is second_part at floor(P/2).
C5_SecondWindowSecondPart ==
    (AnsweredWith("first") /\ Today.day \in 15 .. 20)
        => last.options = <<[type |-> "second_part", price |-> Price \div 2]>>

\* C6: with no prior payment, on days 1..5 the options are full at P, then
\* partial at floor(P/2).
C6_FirstWindowFullThenPartial ==
    (AnsweredNoPayment /\ Today.day \in 1 .. 5)
        => last.options = <<[type |-> "full", price |-> Price],
                            [type |-> "partial", price |-> Price \div 2]>>

\* asked on the last day of the first window
C6_Witness ==
    AnsweredNoPayment /\ Today.day = 5 /\ Len(last.options) = 2

\* C7: with no prior payment, on days >= 21 the only option is half_month at
\* floor(P/2).
C7_LateHalfMonth ==
    (AnsweredNoPayment /\ Today.day >= 21)
        => last.options = <<[type |-> "half_month", price |-> Price \div 2]>>

\* asked on day 25
C7_Witness ==
    AnsweredNoPayment /\ Today.day = 25 /\ Len(last.options) = 1

\* C8: with part_paid=first for the current period, on days >= 21 the only
\* option is second_part_late at floor(P/2), not half_month.
C8_LateSecondPartLate ==
    (AnsweredWith("first") /\ Today.day >= 21)
        => last.options = <<[type |-> "second_part_late", price |-> Price \div 2]>>

\* nothing is paid for the current period: no row of the pair is credited to it
NothingPaidThisPeriod ==
    \A i \in RowsOf(last.user_id, last.plan_id) : ~InCurrentPeriod(i)

\* C9: on days 6..14 there is exactly one option: full at P when nothing is
\* paid for the current period, second_part_late at floor(P/2) when
\* part_paid=first for it; partial is never offered.
C9_GapOptions ==
    (last.op = "options" /\ Today.day \in 6 .. 14)
        => /\ NothingPaidThisPeriod
                => last.options = <<[type |-> "full", price |-> Price]>>
           /\ AnsweredWith("first")
                => last.options =
                     <<[type |-> "second_part_late", price |-> Price \div 2]>>
           /\ \A k \in 1 .. Len(last.options) : last.options[k].type # "partial"

\* asked in the gap by a user who paid the first half
C9_Witness ==
    /\ AnsweredWith("first") /\ Today.day \in 6 .. 14
    /\ Len(last.options) = 1

\* C10: a successful activation of type full, full_anytime, half_month,
\* second_part or second_part_late leaves the written row with part_paid=full
\* and end_ts on day 5, 23:59:59 of the month after now (January of the next
\* year from December).
C10_FullCoverUntilNextMonthDay5 ==
    (last.op = "activate" /\ last.result = "ok"
        /\ last.payment_type \in FullCoverTypes)
        => LET r == subs[last.sub_id]
               d == now_local(r.end_ts)
           IN  /\ r.part_paid = "full"
               /\ d.day = 5 /\ d.slot = LastSlot
               /\ Today.month = 12 => (d.month = 1 /\ d.year = Today.year + 1)
               /\ Today.month # 12
                    => (d.month = Today.month + 1 /\ d.year = Today.year)

\* a second half paid in December on a row that held part_paid=first
C10_Witness ==
    /\ last.op = "activate" /\ last.result = "ok"
    /\ last.payment_type = "second_part"
    /\ Today.month = 12
    /\ invites = 2 /\ Len(subs) = 1

\* C11: a successful activation of type partial leaves the written row with
\* end_ts on day 15, 23:59:59 of the calendar month of now and part_paid=first.
C11_PartialUntilDay15 ==
    (last.op = "activate" /\ last.result = "ok" /\ last.payment_type = "partial")
        => LET r == subs[last.sub_id]
               d == now_local(r.end_ts)
           IN  /\ r.part_paid = "first"
               /\ d.day = 15 /\ d.slot = LastSlot
               /\ d.month = Today.month /\ d.year = Today.year

\* a first half paid on day 3 of January by a user with no row before
C11_Witness ==
    /\ last.op = "activate" /\ last.result = "ok"
    /\ last.payment_type = "partial"
    /\ Today.month = 1 /\ Today.day = 3
    /\ Len(subs) = 1 /\ invites = 1

\* C12: an activation of type renewal whose plan has a group and whose
\* credential is issued succeeds like the full-coverage types: the written row
\* has part_paid=full and end_ts on day 5, 23:59:59 of the next calendar month.
C12_RenewalActivates ==
    (last.op = "activate" /\ last.payment_type = "renewal"
        /\ last.result \notin {"no_group", "no_link"})
        => /\ last.result = "ok"
           /\ last.sub_id \in Ids(subs)
           /\ subs[last.sub_id].part_paid = "full"
           /\ subs[last.sub_id].end_ts = NextMonthDay5(now)

\* C13: when the credential request of an activation fails, the call returns
\* failure and the subscriptions table is left as it was: no row is inserted
\* and no column of an existing row changes.
C13_LinkFailureWritesNothing ==
    [][(last'.op = "activate" /\ last'.result = "no_link") => subs' = subs]_vars

\* the credential request failed for a user who holds a first-half row
C13_Witness ==
    /\ last.op = "activate" /\ last.result = "no_link"
    /\ last.payment_type = "second_part"
    /\ \E i \in ActiveIds(subs, last.user_id, last.plan_id) :
          subs[i].part_paid = "first" /\ InCurrentPeriod(i)

\* C14: when the plan has no target group and the caller passes no fallback
\* group, the activation returns failure before any effect: the subscriptions
\* table is not written and neither the unban request nor the credential
\* request is sent.
C14_NoGroupNoEffect ==
    [][(last'.op = "activate" /\ plan[last'.plan_id].group_id = 0)
          => /\ last'.result = "no_group"
             /\ subs' = subs
             /\ invites' = invites
             /\ ~last'.unban
             /\ ~last'.link_req]_vars

\* a full payment completed for a plan without a group
C14_Witness ==
    /\ last.op = "activate" /\ last.result = "no_group"
    /\ last.payment_type = "full"
    /\ plan[last.plan_id].group_id = 0
    /\ ~last.unban /\ ~last.link_req

\* C15: an activation that finds an active row of the pair for the current
\* period updates that row in place: the table keeps its length, the row keeps
\* its id, user, plan, start_ts, group and period month/year and stays active
\* and not removed, and no other row changes.
C15_UpdateInPlace ==
    [][\A e \in Ids(subs) :
          (/\ last'.op = "activate" /\ last'.result = "ok"
           /\ e \in ActiveIds(subs, last'.user_id, last'.plan_id)
           /\ InCurrentPeriod(e))
          => /\ Len(subs') = Len(subs)
             /\ last'.sub_id = e
             /\ subs'[e].id = subs[e].id
             /\ subs'[e].user_id = subs[e].user_id
             /\ subs'[e].plan_id = subs[e].plan_id
             /\ subs'[e].start_ts = subs[e].start_ts
             /\ subs'[e].group_id = subs[e].group_id
             /\ subs'[e].month = subs[e].month
             /\ subs'[e].year = subs[e].year
             /\ subs'[e].active /\ ~subs'[e].removed
             /\ \A i \in Ids(subs) \ {e} : subs'[i] = subs[i]]_vars

\* the second half paid on a row inserted at an earlier moment of the month
C15_Witness ==
    /\ last.op = "activate" /\ last.result = "ok"
    /\ last.payment_type = "second_part"
    /\ Len(subs) = 1 /\ invites = 2
    /\ record_start /\ subs[1].start_ts < now
    /\ subs[1].part_paid = "full" /\ InCurrentPeriod(1)

\* C16: an activation never shortens remaining access: when the pair's active
\* row has end_ts in the future, a successful activation of any payment type
\* leaves that row with an end_ts no earlier than before the call.
C16_NeverShortens ==
    [][\A e \in Ids(subs) :
          (/\ last'.op = "activate" /\ last'.result = "ok"
           /\ e \in ActiveIds(subs, last'.user_id, last'.plan_id)
           /\ subs[e].end_ts > now)
          => subs'[e].end_ts >= subs[e].end_ts]_vars

\* C17: an activation for a pair that has no active row but has an inactive
\* one (revoked by the sweeper) reuses the inactive row instead of inserting:
\* the number of rows of the pair does not grow.
C17_ReusesInactiveRow ==
    [][\A u \in Users, p \in Plans :
          (/\ last'.op = "activate" /\ last'.result = "ok"
           /\ last'.user_id = u /\ last'.plan_id = p
           /\ ActiveIds(subs, u, p) = {}
           /\ \E i \in Ids(subs) :
                 subs[i].user_id = u /\ subs[i].plan_id = p /\ ~subs[i].active)
          => Cardinality({i \in Ids(subs') :
                             subs'[i].user_id = u /\ subs'[i].plan_id = p})
                <= Cardinality({i \in Ids(subs) :
                                   subs[i].user_id = u /\ subs[i].plan_id = p})]_vars

\* the promo handler that ran last evaluated apply_promo_code on a code of the
\* registry
Applied ==
    /\ last.promo_id \in PromoIds(promo_codes)
    /\ \/ last.op = "promo_input" /\ last.result = "ok"
       \/ last.op = "buy_with_promo"

\* C18: can_use_promo_code checks, in this order, a prior usage by the user,
\* the active flag, used_count >= max_uses and expires_ts < now; it returns
\* the reason of the first check that fails, ok only when all four pass, and
\* it writes neither the promo registry nor the usage table.
C18_ValidationOrder ==
    [][(last'.op = "promo_input" /\ last'.promo_id \in PromoIds(promo_codes))
          => LET r         == promo_codes[last'.promo_id]
                 used      == \E k \in 1 .. Len(promo_usage) :
                                 /\ promo_usage[k].promo_id = last'.promo_id
                                 /\ promo_usage[k].user_id = last'.user_id
                 inactive  == ~r.is_active
                 exhausted == r.max_uses # 0 /\ r.used_count >= r.max_uses
                 expired   == r.expires_ts # 0 /\ r.expires_ts < now
             IN  /\ used => last'.result = "already_used"
                 /\ (~used /\ inactive) => last'.result = "inactive"
                 /\ (~used /\ ~inactive /\ exhausted) => last'.result = "exhausted"
                 /\ (~used /\ ~inactive /\ ~exhausted /\ expired)
                       => last'.result = "expired"
                 /\ last'.result = "ok"
                       <=> (~used /\ ~inactive /\ ~exhausted /\ ~expired)
                 /\ promo_codes' = promo_codes
                 /\ promo_usage' = promo_usage]_vars

\* a user types a code they have used, which is also inactive, used up and
\* past its term: the answer is the prior usage
C18_Witness ==
    /\ last.op = "promo_input" /\ last.result = "already_used"
    /\ last.promo_id \in PromoIds(promo_codes)
    /\ ~promo_codes[last.promo_id].is_active
    /\ promo_codes[last.promo_id].max_uses = 1
    /\ promo_codes[last.promo_id].used_count = 1
    /\ promo_codes[last.promo_id].expires_ts # 0
    /\ promo_codes[last.promo_id].expires_ts < now

\* C19: for every non-negative price and every code of the registry, percent
\* or fixed, apply_promo_code answers a price p with 0 <= p <= price.
C19_DiscountedPriceInRange ==
    Applied => (0 <= last.new_price /\ last.new_price <= last.price)

\* a fixed discount larger than the price brings the price to 0
C19_Witness ==
    /\ Applied
    /\ promo_codes[last.promo_id].discount_fixed_cents > last.price
    /\ last.price = 1000 /\ last.new_price = 0

\* C20: apply_promo_code answers max(0, price - floor(price * percent / 100))
\* for a percent code and max(0, price - fixed) for a fixed code (10% on 1000
\* gives 900, fixed 150 on 1000 gives 850), and every code carries exactly one
\* of the two kinds of discount.
C20_DiscountFormula ==
    /\ \A i \in PromoIds(promo_codes) :
          (promo_codes[i].discount_percent # 0)
              # (promo_codes[i].discount_fixed_cents # 0)
    /\ Applied
        => LET r   == promo_codes[last.promo_id]
               pct == r.discount_percent
               fix == r.discount_fixed_cents
               cut == last.price - last.new_price
           IN  /\ pct # 0
                    => /\ 100 * cut <= last.price * pct
                       /\ last.price * pct < 100 * (cut + 1)
               /\ (pct = 0 /\ fix # 0)
                    => last.new_price
                         = (IF last.price > fix THEN last.price - fix ELSE 0)
               /\ (last.price = 1000 /\ pct = 10) => last.new_price = 900
               /\ (last.price = 1000 /\ fix = 150) => last.new_price = 850

\* 10% on 999: the discount is 99, not 99.9
C20_Witness ==
    /\ Applied
    /\ promo_codes[last.promo_id].discount_percent = 10
    /\ last.price = 999 /\ last.new_price = 900

----------------------------------------------------------------------------
(* C30 *)

\* the row the options were computed from is the user's only active row, it
\* is fully paid for the period before the current one and has not ended
FullOfPreviousPeriod(i) ==
    /\ i # 0
    /\ ActiveIds(subs, subs[i].user_id, subs[i].plan_id) = {i}
    /\ subs[i].part_paid = "full"
    /\ ~InCurrentPeriod(i)
    /\ subs[i].end_ts > now

\* C30: on days 1..5 of a new month a user whose only active row is fully paid
\* for the previous period (end_ts still ahead) is offered the first-window
\* options, the full payment and then the first half
C30_RolloverReopensOptions ==
    (/\ last.op = "options"
     /\ Today.day \in 1 .. 5
     /\ FullOfPreviousPeriod(last.sub_id))
        => last.options = <<Option("full", Price), Option("partial", Price \div 2)>>

----------------------------------------------------------------------------
(* C25, C26 *)

\* C25: the daily 01:00 sweep revokes every active row whose end_ts is earlier
\* than now, whatever its part_paid and period, and leaves every active row
\* whose end_ts is still ahead as it was
C25_DailySweepRevokesExpired ==
    [][last'.op = "sweep_daily" =>
        /\ Len(subs') = Len(subs)
        /\ \A i \in Ids(subs) :
              /\ (subs[i].active /\ subs[i].end_ts < now) =>
                     (~subs'[i].active /\ subs'[i].removed)
              /\ (subs[i].active /\ subs[i].end_ts > now) => subs'[i] = subs[i]]_vars

\* the sweep has just revoked a row that was fully paid for an earlier period
C25_Witness ==
    /\ last.op = "sweep_daily"
    /\ \E i \in DOMAIN last.ban_calls :
          /\ ~subs[i].active /\ subs[i].removed
          /\ subs[i].part_paid = "full"
          /\ ~InCurrentPeriod(i)


\* C26: every row the sweep selected ends with active=false and removed=true,
\* whether or not its ban request raised and whatever happened to the rows
\* handled before it, and the ban was requested exactly once for each row
C26_RevokeDespiteFailures ==
    [][last'.op = "sweep_daily" =>
        \A i \in DailyExpired(subs, now) :
            /\ ~subs'[i].active /\ subs'[i].removed
            /\ subs[i].group_id # 0 => last'.ban_calls[i] = 1]_vars

\* one sweep handled two rows, the ban of one of them raised, and both rows
\* are revoked
C26_Witness ==
    /\ last.op = "sweep_daily"
    /\ \E i, j \in DOMAIN last.ban_calls :
          /\ i \in last.ban_failed /\ j \notin last.ban_failed
          /\ ~subs[i].active /\ subs[i].removed
          /\ ~subs[j].active /\ subs[j].removed

----------------------------------------------------------------------------
(* C23, C24 *)

C24_Day21RevokesFirstOnly ==
    [][last'.op = "sweep21" =>
        \A i \in Ids(subs) :
            /\ (/\ subs[i].active
                /\ subs[i].part_paid = "first"
                /\ InCurrentPeriod(i)) => (~subs'[i].active /\ subs'[i].removed)
            /\ subs[i].part_paid = "full" => subs'[i] = subs[i]]_vars

----------------------------------------------------------------------------
(* C27 *)

\* C27: a row that is inactive stays inactive: no activation and no sweep
\* sets active back to true
C27_InactiveIsTerminal ==
    [][\A i \in Ids(subs) : ~subs[i].active => ~subs'[i].active]_vars

----------------------------------------------------------------------------
(* C21, C22, C28, C29 *)

\* C21: promo_usage holds at most one record for a promo code and a user
C21_OneUsagePerUser ==
    \A i, j \in 1 .. Len(promo_usage) :
        (/\ promo_usage[i].promo_id = promo_usage[j].promo_id
         /\ promo_usage[i].user_id = promo_usage[j].user_id) => i = j

\* a step completes a payment: an invoice becomes paid or a manual request
\* becomes approved, and activate_subscription returned success
PaymentCompleted ==
    /\ last'.op = "activate" /\ last'.result = "ok"
    /\ \/ \E k \in 1 .. Len(invoices) : ~invoices[k].paid /\ invoices'[k].paid
       \/ \E k \in 1 .. Len(manual_payments) :
             /\ manual_payments[k].status = "pending"
             /\ manual_payments'[k].status = "approved"

\* C22: promo_usage and used_count change only in a step that completes a
\* payment, and then by one usage row of the paying user and one count of its
\* code; applying a code, creating an invoice or a manual request, cancelling
\* and rejecting leave both tables as they were
C22_UsageOnlyOnCompletion ==
    [][(promo_usage' # promo_usage \/ promo_codes' # promo_codes) =>
        /\ PaymentCompleted
        /\ \E i \in PromoIds(promo_codes) :
              /\ promo_usage' = Append(promo_usage,
                                       [promo_id |-> i, user_id |-> last'.user_id])
              /\ promo_codes' = [promo_codes EXCEPT ![i].used_count = @ + 1]]_vars

\* a card payment made with the code has just been completed and its usage is
\* on record, after the code was applied and the invoice created
C22_Witness ==
    /\ last.op = "activate" /\ last.result = "ok"
    /\ last.payload # <<>> /\ ParsePayload(last.payload).promo_id = 1
    /\ promo_usage = <<[promo_id |-> 1, user_id |-> last.user_id]>>
    /\ promo_codes[1].used_count = 1

\* the payload has fewer fields than the payload of line 2578, its plan id,
\* month or year is not a number, or its payment type is not a known one
Malformed(parts) ==
    \/ Len(parts) < 13
    \/ ~IsInt(parts[2]) \/ ~IsInt(parts[8]) \/ ~IsInt(parts[10])
    \/ parts[6] \notin PaymentTypes

\* C28: a payment completion with a malformed payload changes no subscription
\* row, requests no credential and records no promo usage
C28_MalformedTokenRejected ==
    [][(last'.payload # <<>> /\ Malformed(last'.payload)) =>
        /\ subs' = subs
        /\ ~last'.link_req
        /\ invites' = invites
        /\ promo_usage' = promo_usage /\ promo_codes' = promo_codes]_vars

\* C29: the row written for a completed payment is tagged with the period the
\* invoice or the manual request was created for
C29_TaggedWithPurchasePeriod ==
    [][last'.op = "activate" /\ last'.result = "ok" =>
        /\ \A k \in 1 .. Len(invoices) :
              (~invoices[k].paid /\ invoices'[k].paid) =>
                  /\ subs'[last'.sub_id].month = ParsePayload(invoices[k].payload).period_month
                  /\ subs'[last'.sub_id].year = ParsePayload(invoices[k].payload).period_year
        /\ \A k \in 1 .. Len(manual_payments) :
              (/\ manual_payments[k].status = "pending"
               /\ manual_payments'[k].status = "approved") =>
                  /\ subs'[last'.sub_id].month = manual_payments[k].period_month
                  /\ subs'[last'.sub_id].year = manual_payments[k].period_year]_vars

----------------------------------------------------------------------------
(* C38 *)

\* C38: every subscription row has part_paid=first or part_paid=full, and the
\* rows the day-6 sweep selects (active, stale period, part_paid=none) are none
C38_NoUnpaidRow ==
    /\ \A i \in Ids(subs) : subs[i].part_paid \in {"first", "full"}
    /\ Day6Unpaid(subs, now) = {}

\* at the time of the day-6 sweep the table holds an active row of the previous
\* period, written by a partial payment and not marked none
C38_Witness ==
    /\ Today.day = 6 /\ Today.slot = 0
    /\ \E i \in Ids(subs) :
          /\ subs[i].active /\ ~InCurrentPeriod(i)
          /\ subs[i].payment_type = "partial"
          /\ subs[i].part_paid = "first"

----------------------------------------------------------------------------
(* C39 *)

\* C39: on days 15..20 no step revokes an active row with part_paid=first for
\* the current period
C39_FirstHalfActiveInSecondWindow ==
    [][\A i \in Ids(subs) :
          (/\ Today.day \in 15 .. 20
           /\ subs[i].active
           /\ subs[i].part_paid = "first"
           /\ InCurrentPeriod(i)) => subs'[i].active]_vars

----------------------------------------------------------------------------
(* C35 *)

\* C35: a row that is fully paid for the current period is not set back to
\* part_paid=first while it stays credited to that period
C35_PartPaidMovesForward ==
    [][\A i \in Ids(subs) :
          (/\ subs[i].part_paid = "full"
           /\ InCurrentPeriod(i)
           /\ subs'[i].month = subs[i].month /\ subs'[i].year = subs[i].year)
              => subs'[i].part_paid = "full"]_vars

----------------------------------------------------------------------------
(* C36 *)

----------------------------------------------------------------------------
(* C31 *)

\* C31: the sweeper, handling a row it fetched earlier, does not revoke a row
\* that is active with its end_ts ahead
C31_SweepSparesRenewedRow ==
    [][last'.op = "sweep_row" =>
        \A i \in Ids(subs) :
            (subs[i].active /\ subs[i].end_ts > now) => subs'[i].active]_vars

----------------------------------------------------------------------------
(* C37 *)

\* C37: the status of a manual payment request changes only from pending to
\* approved or rejected, and activate_subscription completes for a request
\* only while the request is pending, so at most once
C37_OneActivationPerRequest ==
    [][\A k \in 1 .. Len(manual_payments) :
          /\ manual_payments'[k].status # manual_payments[k].status =>
                /\ manual_payments[k].status = "pending"
                /\ manual_payments'[k].status \in {"approved", "rejected"}
          /\ (last'.op = "activate" /\ last'.request = k) =>
                manual_payments[k].status = "pending"]_vars

----------------------------------------------------------------------------
(* C34 *)

\* C34: while no user has used a code twice, the used_count of a code with a
\* max_uses limit does not exceed the limit
C34_UsedCountWithinLimit ==
    C21_OneUsagePerUser =>
        \A i \in PromoIds(promo_codes) :
            promo_codes[i].max_uses # 0 =>
                promo_codes[i].used_count <= promo_codes[i].max_uses

----------------------------------------------------------------------------
(* C40 *)

----------------------------------------------------------------------------
(* C33 *)

\* C33: a request started by a buy button is for a payment type that
\* get_payment_options offers the user at that moment
C33_RequestOnlyForOfferedType ==
    (last.op = "buy" /\ last.result \in {"invoice", "manual"}) =>
        \E e \in LatestActive(subs, last.user_id, last.plan_id) :
            \E o \in Range(get_payment_options(subs, last.plan_id, now, e)) :
                o.type = last.payment_type

----------------------------------------------------------------------------
(* C32 *)

\* C32: in the checkout without codes every stored invoice, and every manual
\* session a request will be made from, carries the amount of its payment
\* type: the price of the plan for the full types, half of it for the others
C32_AmountBelongsToType ==
    /\ \A k \in 1 .. Len(invoices) :
          LET tok == ParsePayload(invoices[k].payload)
          IN  invoices[k].amount_cents
                  = TypeAmount(plan[tok.plan_id].price, tok.payment_type)
    /\ \A u \in Users :
          user_states[u].mode = "manual_payment" =>
              user_states[u].amount_cents
                  = TypeAmount(plan[user_states[u].plan_id].price,
                               user_states[u].payment_type)

====
